---- MODULE Spec2Model ----
(***************************************************************************)
(* Verification model of the learning-journey client (frontend-v2).        *)
(*                                                                         *)
(* Part 1: the journey page (app/journey/[id]/page.tsx): the per-session   *)
(* time-tracking context, the completion toggle with its confirmation      *)
(* loop, navigation, tab visibility and unmount, against the progress      *)
(* tracker of the backend.  The backend is not part of the frontend        *)
(* sources; its operations follow the design document, section 4.5.        *)
(*                                                                         *)
(* Time is counted in half minutes: the periodic timer of the page has a   *)
(* period of 30 s and the reported value is floor(elapsed / 60 s).  The    *)
(* page reads the clock only as Date.now() - startTime, so the clock is    *)
(* kept relative to the last assignment of startTime (Origin).             *)
(* Resource ids are 1..n; the resource at (0-based) index i has id i + 1.  *)
(***************************************************************************)
EXTENDS Integers, Sequences, FiniteSets, TLC

\* ---- bounds of the model -------------------------------------------------
NumResources == 2        \* resources of the loaded journey
MaxTime == 3             \* half minutes one tracking interval may last
MaxFaults == 1           \* failed responses of the backend
MaxUserActions == 3      \* clicks, tab switches and unmounts of a session
MaxToggles == 2          \* handleMarkComplete invocations alive at once
MaxPendingStops == 2     \* stopTimeTracking calls awaiting their time write
MaxTimers == 1           \* pending skip-flag timers of each kind
MaxSections == 2         \* stored sections of a journey
MaxSectionLen == 2       \* resource ids listed by a stored section
MaxMessages == 4         \* messages of a chat before the last send
MaxConversations == 2    \* conversations of the user
MaxRequests == 2         \* chat requests in flight

\* ---- program constants ---------------------------------------------------
ConfirmRetries == 5      \* let retries = 5
TickHalfMinutes == 1     \* setInterval(..., 30000)
MinuteHalfMinutes == 2   \* elapsed / 60000

Null == -1
Origin == 0              \* startTime = Date.now(), the origin of `now`
NoProgress == <<>>       \* progress === null
NoJourney == [status |-> "none", n |-> 0]   \* journey === null

Resources == 1..NumResources
\* the statuses the pages name, and "failed" of the design document
Statuses ==
  {"pending", "scraping", "curating", "ready", "completed", "failed"}

VARIABLES
  \* journey page, React state
  journey,               \* NoJourney or [status, n] (n: resources.length)
  progress,              \* NoProgress or [Resources -> BOOLEAN]: completed === 2
  loading,
  currentResourceIndex,  \* 0-based
  markingComplete,       \* Null or resource id
  \* journey page, refs
  skipTimeTrackingRef,   \* Null or resource id
  timeTrackingRef,       \* [startTime, resourceId, intervalId]
  \* browser / runtime
  mounted,
  hidden,                \* document.hidden
  now,                   \* Date.now() since Origin, in half minutes
  orphanIntervals,       \* intervals created, not cleared, not in the ref
  effectTimeout,         \* the 50 ms timeout of the tracking effect: Null or id
  visProgress,           \* progress captured by the visibilitychange handler
  restartTimers,         \* [Resources -> Nat]: pending 100 ms restart timers
  clearTimers,           \* pending 500 ms skip-flag timers
  toggles,               \* [1..MaxToggles -> toggle record or Idle]
  pendingStops,          \* [Resources -> Nat]: stopTimeTracking calls suspended
                         \* at the time write of that resource
  pendingNav,            \* [NavKeys -> Nat]: savePosition calls at their await
  \* network and backend
  inProgressReqs,        \* mark-in-progress requests in flight
  server,                \* [Resources -> 0..2]: ProgressRecord.completed
  \* observation
  faults,                \* failed responses so far
  userActions,           \* user actions so far
  reportedMinutes,       \* minutes sent for the interval in the context
  sentNow                \* requests sent (toggles rejected) by the last step

jvars == <<journey, progress, loading, currentResourceIndex, markingComplete,
           skipTimeTrackingRef, timeTrackingRef, mounted, hidden, now,
           orphanIntervals, effectTimeout, visProgress, restartTimers,
           clearTimers, toggles, pendingStops, pendingNav, inProgressReqs,
           server, faults, userActions, reportedMinutes, sentNow>>

VARIABLES
  \* LearningRoadmap: its props and the sections it builds
  roadmapResources,      \* journey.resources.length; the ids are 1..length
  roadmapStored,         \* journey.sections: a sequence of sequences of ids
  sections,              \* the sections built by the last render, or <<>>
  progressByResource,    \* the prop: [has, completed], completed a map
                         \* from resource ids to 0..2
  overallProgress,       \* the percentage of the last render, or Null
  \* journey preview page
  previewAuth,           \* "loading", "yes" or "no" (useAuth)
  previewJourney,        \* NoJourney or [status, n]
  previewProgress,       \* Null or completion_percentage
  previewLoading,
  fetchJourneyRef,
  previewView,           \* what the last render returned
  \* start page and chat page
  chatPage,              \* "start" or "chat"
  messages,              \* sequence of [role, content]
  chatLoading,
  conversationId,        \* Null or id
  isReady,
  journeyId,             \* Null or id
  chatRequest,           \* the requests in flight, each with its closure
  chatEvent,             \* what the last step did
  \* two journey-page sessions (tabs or devices) of one user
  sessionRefs,           \* the timeTrackingRef.current of each session
  sessionStops,          \* per session and resource: suspended stops
  sessionNow,            \* per session: half minutes since its startTime
  sessionSent,           \* the requests the last step sent
  sessionActing,         \* the session whose code ran in the last step, or 0
  \* the API client (axios instance `api`) and localStorage
  accessToken,           \* localStorage access_token: Null or a token
  refreshToken,          \* localStorage refresh_token: Null or a token
  apiRequests,           \* per request: [pc, retry, sends, refreshes,
                         \* auth, result]
  interceptEvent,        \* what the last step did, and for which request
  \* ConversationHistory (the sidebar of the start and chat pages)
  conversations,         \* the list shown: a sequence of [id, updated_at]
  historyLoading,
  historyFetches,        \* calls of fetchConversations awaiting their answer
  historyData,           \* what the last answer held, as the server sent it
  historyEvent,          \* what the last step did
  \* AuthProvider (contexts/AuthContext.tsx); its localStorage is
  \* accessToken / refreshToken above
  authPhase,             \* "constructed" (mount effect not run) or "running"
  authUser,              \* user: NoUser or [is_admin]
  authLoading,
  isAuthenticated,
  authCalls,             \* the calls awaiting their answer: "check",
                         \* "login", "register"
  authRedirect,          \* window.location.href = '/login' was assigned
  authSteps,             \* calls of checkAuth, login, register, logout
  \* MyLearningPage (my-learning/page.tsx)
  journeys,              \* the list shown: a sequence of [id, status, full]
  listLoading,           \* loading
  listPhase,             \* "idle", "listing", "details", "done", "failed"
  listData,              \* data: what getUserJourneys returned
  listResults,           \* per entry of data: Awaited or what its
                         \* callback returned
  \* AdminPage (the /admin page), a consumer of the AuthProvider
  adminMounted,
  adminLoading,          \* loading
  adminLoads,            \* the loadData calls awaiting their answers, by
                         \* caller: "effect", "premium"
  adminData,             \* premiumRequests / allUsers hold loaded data
  adminProcessing,       \* handleSetPremium: "none", "posting", "reloading"
  adminPushes,           \* the router.push calls made: "login", "my-learning"
  \* the environment
  userBudget             \* how many actions the user takes on the journey
                         \* page in this run

rvars == <<roadmapResources, roadmapStored, sections, progressByResource,
           overallProgress>>
pvars == <<previewAuth, previewJourney, previewProgress, previewLoading,
           fetchJourneyRef, previewView>>
cvars == <<chatPage, messages, chatLoading, conversationId, isReady,
           journeyId, chatRequest, chatEvent>>

svars == <<sessionRefs, sessionStops, sessionNow, sessionSent, sessionActing>>

avars == <<accessToken, refreshToken, apiRequests, interceptEvent>>

hvars == <<conversations, historyLoading, historyFetches, historyData,
           historyEvent>>

uvars == <<authPhase, authUser, authLoading, isAuthenticated, authCalls,
           authRedirect, authSteps>>

lvars == <<journeys, listLoading, listPhase, listData, listResults>>

mvars == <<adminMounted, adminLoading, adminLoads, adminData,
           adminProcessing, adminPushes>>

evars == <<userBudget>>

vars == <<jvars, rvars, pvars, cvars, svars, avars, hvars, uvars, lvars, mvars, evars>>

\* what a component leaves alone: the state of the other components
besidesJourney == <<rvars, pvars, cvars, svars, avars, hvars, uvars, lvars, mvars, evars>>
besidesRoadmap == <<jvars, pvars, cvars, svars, avars, hvars, uvars, lvars, mvars, evars>>
besidesPreview == <<jvars, rvars, cvars, svars, avars, hvars, uvars, lvars, mvars, evars>>
besidesChat == <<jvars, rvars, pvars, svars, avars, hvars, uvars, lvars, mvars, evars>>
besidesSessions == <<jvars, rvars, pvars, cvars, avars, hvars, uvars, lvars, mvars, evars>>
besidesHistory == <<jvars, rvars, pvars, cvars, svars, avars, uvars, lvars, mvars, evars>>
besidesApi == <<jvars, rvars, pvars, cvars, svars, hvars, uvars, lvars, mvars, evars>>
besidesList ==
  <<jvars, rvars, pvars, cvars, svars, avars, hvars, uvars, mvars, evars>>

Idle == [pc |-> "idle"]
NoTracking == [startTime |-> Null, resourceId |-> Null, intervalId |-> FALSE]

Min(a, b) == IF a < b THEN a ELSE b
Max(a, b) == IF a > b THEN a ELSE b


NavKeys == Resources \X BOOLEAN   \* target id, target completed at click time

Req(kind, r, m) == [kind |-> kind, rid |-> r, minutes |-> m]

react == <<journey, progress, loading, currentResourceIndex, markingComplete,
           visProgress>>

\* ---- closures and guards of the page ------------------------------------
\* journey?.resources?.[idx]
HasResource(jr, idx) == jr # NoJourney /\ idx \in 0..(jr.n - 1)

ResourceId(idx) == idx + 1

\* progress?.progress_by_resource[r]?.completed === 2
CompletedIn(pr, r) == pr # NoProgress /\ pr[r]

\* isResourceCompleted(resourceId)
isResourceCompleted(r) == CompletedIn(progress, r)

\* the page past its three early returns, with a currentResource to render:
\* the toolbar and the buttons exist (and the tab is visible, so that they
\* can be clicked)
Rendered ==
  /\ mounted /\ ~loading /\ ~hidden
  /\ journey # NoJourney /\ journey.status = "ready" /\ journey.n > 0
  /\ HasResource(journey, currentResourceIndex)

\* Math.floor((Date.now() - startTime) / 60000)
TimeSpent(ref, t) == (t - ref.startTime) \div MinuteHalfMinutes

\* a time write sent whatever the minutes
AlwaysSent(timeSpent) == TRUE

\* if (timeSpent > 0), the guard of both updateTimeSpent calls
WorthSending(timeSpent) == timeSpent > 0

\* ---- backend: the progress tracker (design document, 4.5) ---------------
\* mark_in_progress without its guard on completed records
MarkInProgressUnguarded(c) == 1

\* mark_in_progress: no-op on a completed record, else max(current, 1)
MarkInProgress(c) == IF c = 2 THEN 2 ELSE Max(c, 1)

\* mark_completed / mark_incomplete
MarkCompleted(c) == 2
MarkIncomplete(c) == 0

\* add_time_spent leaves the completion state alone
AddTimeSpent(c, minutes) == c

\* the backend applies the time writes of a step
TimeWritesApplied(srv, reqs) ==
  [r \in Resources |->
     IF \E q \in reqs : q.kind = "time" /\ q.rid = r
     THEN AddTimeSpent(srv[r],
            (CHOOSE q \in reqs : q.kind = "time" /\ q.rid = r).minutes)
     ELSE srv[r]]

\* get_summary, as far as the page reads it: completed === 2 per resource
Summary(srv) == [r \in Resources |-> srv[r] = 2]

\* one more action of the user
UserActs == userActions < userBudget /\ userActions' = userActions + 1

\* ---- the tracking bundle --------------------------------------------------
\* What startTimeTracking / stopTimeTracking read and write, as one record,
\* so that a handler is the composition of the calls it makes.
Bundle ==
  [ref |-> timeTrackingRef, stops |-> pendingStops, ip |-> inProgressReqs,
   orph |-> orphanIntervals, eff |-> effectTimeout, now |-> now,
   rep |-> reportedMinutes, out |-> {}]

Commit(b) ==
  /\ timeTrackingRef' = b.ref
  /\ pendingStops' = b.stops
  /\ inProgressReqs' = b.ip
  /\ orphanIntervals' = b.orph
  /\ effectTimeout' = b.eff
  /\ now' = IF b.ref.startTime = Null THEN 0 ELSE b.now
  /\ reportedMinutes' = IF b.ref.startTime = Null THEN 0 ELSE b.rep
  /\ sentNow' = b.out
  /\ server' = TimeWritesApplied(server, b.out)

\* does stopTimeTracking reach its await (a time write goes out)?
StopSuspends(b) ==
  /\ b.ref.startTime # Null /\ b.ref.resourceId # Null
  /\ WorthSending(TimeSpent(b.ref, b.now))

\* a stop that leaves the interval running
IntervalKept(ref) == ref

\* clearInterval(intervalId); intervalId = null
ClearInterval(ref) == [ref EXCEPT !.intervalId = FALSE]

\* stopTimeTracking, up to its await or to its end
stopTimeTracking(b) ==
  LET cleared == ClearInterval(b.ref)
      r == b.ref.resourceId
  IN IF b.ref.startTime # Null /\ r # Null
     THEN IF WorthSending(TimeSpent(b.ref, b.now))
          THEN [b EXCEPT !.ref = cleared,
                         !.stops[r] = @ + 1,
                         !.rep = @ + TimeSpent(b.ref, b.now),
                         !.out = @ \cup
                                 {Req("time", r, TimeSpent(b.ref, b.now))}]
          ELSE [b EXCEPT !.ref = [cleared EXCEPT !.startTime = Null,
                                                  !.resourceId = Null]]
     ELSE [b EXCEPT !.ref = cleared]

\* startTimeTracking(r), called from a closure whose progress says
\* `done` for r, with skipTimeTrackingRef.current = skip
startTimeTracking(b, r, done, skip) ==
  LET s == stopTimeTracking(b)
  IN IF skip = r THEN s
     ELSE IF done THEN s
     ELSE [s EXCEPT !.ref = [startTime |-> Origin, resourceId |-> r,
                             intervalId |-> TRUE],
                    !.now = Origin,
                    !.rep = 0,
                    !.orph = @ + (IF s.ref.intervalId THEN 1 ELSE 0),
                    !.ip = @ \cup {r},
                    !.out = @ \cup {Req("in-progress", r, 0)}]

\* the continuation of a suspended stopTimeTracking
stopResumed(b) ==
  [b EXCEPT !.ref.startTime = Null, !.ref.resourceId = Null]

\* ---- the time-tracking effect -------------------------------------------
\* did the effect of the current render return a cleanup?
HadCleanup ==
  markingComplete = Null /\ HasResource(journey, currentResourceIndex)

\* cleanup of the previous run, then the run for the new dependencies
trackingEffect(b, mk, jr, idx) ==
  LET c == IF HadCleanup
           THEN stopTimeTracking([b EXCEPT !.eff = Null])
           ELSE b
  IN IF mk # Null THEN c
     ELSE IF HasResource(jr, idx) THEN [c EXCEPT !.eff = ResourceId(idx)]
     ELSE stopTimeTracking(c)

\* ---- loadJourneyData -----------------------------------------------------
\* the initial index: after the last completed resource, else the server's
\* last position, else 0
InitialIndex(n, pd, lastPos) ==
  LET done == IF pd = NoProgress THEN {}
              ELSE {i \in 0..(n - 1) : pd[ResourceId(i)]}
      latest == IF done = {} THEN -1
                ELSE CHOOSE i \in done : \A j \in done : j <= i
  IN IF pd # NoProgress /\ latest >= 0 THEN Min(latest + 1, n - 1)
     ELSE IF lastPos # Null THEN lastPos
     ELSE 0

\* the responses loadJourneyData can get: the journey, the progress summary
\* (or null, its catch), the last position (or none)
JourneyResponses(old) ==
  IF old # NoJourney THEN {old}
  ELSE [status : Statuses, n : 0..NumResources]

ProgressResponses == {Summary(server), NoProgress}

LastPositions(n) == {Null} \cup 0..n

RECURSIVE SumOver(_, _)
SumOver(f, S) ==
  IF S = {} THEN 0
  ELSE LET x == CHOOSE y \in S : TRUE IN f[x] + SumOver(f, S \ {x})

\* awaits of stopTimeTracking that are outstanding
PendingContinuations(b, nav) ==
  SumOver(b.stops, Resources) + SumOver(nav, NavKeys)

\* the journey page before its first load, the backend records apart
JourneyStart ==
  /\ journey = NoJourney /\ progress = NoProgress /\ loading = TRUE
  /\ currentResourceIndex = 0 /\ markingComplete = Null
  /\ skipTimeTrackingRef = Null /\ timeTrackingRef = NoTracking
  /\ mounted = TRUE /\ hidden = FALSE /\ now = 0
  /\ orphanIntervals = 0 /\ effectTimeout = Null
  /\ visProgress = NoProgress
  /\ restartTimers = [r \in Resources |-> 0] /\ clearTimers = 0
  /\ toggles = [k \in 1..MaxToggles |-> Idle]
  /\ pendingStops = [r \in Resources |-> 0]
  /\ pendingNav = [k \in NavKeys |-> 0]
  /\ inProgressReqs = {}
  /\ faults = 0 /\ userActions = 0 /\ reportedMinutes = 0
  /\ sentNow = {}

\* progressByResource === undefined
NoProgressMap == [has |-> FALSE, completed |-> <<>>]

\* LearningRoadmap not rendered
RoadmapOff ==
  /\ roadmapResources = 0 /\ roadmapStored = <<>> /\ sections = <<>>
  /\ progressByResource = NoProgressMap /\ overallProgress = Null

\* preview page not opened
PreviewOff ==
  /\ previewAuth = "no" /\ previewJourney = NoJourney
  /\ previewProgress = Null /\ previewLoading = TRUE
  /\ fetchJourneyRef = FALSE /\ previewView = <<>>

\* start / chat page not opened
ChatOff ==
  /\ chatPage = "none" /\ messages = <<>> /\ chatLoading = FALSE
  /\ conversationId = Null /\ isReady = FALSE /\ journeyId = Null
  /\ chatRequest = {} /\ chatEvent = "none"

\* no second session modelled
SessionsOff ==
  /\ sessionRefs = <<>> /\ sessionStops = <<>> /\ sessionNow = <<>>
  /\ sessionSent = {} /\ sessionActing = 0

\* no request made through the API client
ApiOff ==
  /\ accessToken = Null /\ refreshToken = Null
  /\ apiRequests = <<>> /\ interceptEvent = <<>>

\* ConversationHistory not mounted
HistoryOff ==
  /\ conversations = <<>> /\ historyLoading = TRUE /\ historyFetches = 0
  /\ historyData = <<>> /\ historyEvent = "none"

\* user === null
NoUser == [id |-> Null]

\* no AuthProvider mounted
AuthOff ==
  /\ authPhase = "constructed" /\ authUser = NoUser /\ authLoading = TRUE
  /\ isAuthenticated = FALSE /\ authCalls = {} /\ authRedirect = FALSE
  /\ authSteps = 0

\* MyLearningPage not mounted
ListOff ==
  /\ journeys = <<>> /\ listLoading = TRUE /\ listPhase = "idle"
  /\ listData = <<>> /\ listResults = <<>>

\* AdminPage not mounted
AdminOff ==
  /\ adminMounted = FALSE /\ adminLoading = TRUE /\ adminLoads = {}
  /\ adminData = FALSE /\ adminProcessing = "none" /\ adminPushes = {}

\* the components added to the model after the four pages, not opened
ExtrasOff ==
  /\ SessionsOff /\ ApiOff /\ HistoryOff /\ AuthOff /\ ListOff
  /\ AdminOff

JInit ==
  /\ JourneyStart /\ server \in [Resources -> 0..2]
  /\ userBudget = MaxUserActions
  /\ RoadmapOff /\ PreviewOff /\ ChatOff /\ ExtrasOff

\* the first load, from the mount effect
LoadJourneyData ==
  /\ UNCHANGED besidesJourney
  /\ mounted /\ loading /\ journey = NoJourney
  /\ \/ /\ faults < MaxFaults             \* getJourney throws: catch, finally
        /\ faults' = faults + 1
        /\ loading' = FALSE
        /\ Commit(Bundle)
        /\ UNCHANGED <<journey, progress, currentResourceIndex,
                       markingComplete, visProgress, skipTimeTrackingRef,
                       mounted, hidden, restartTimers, clearTimers, toggles,
                       pendingNav, userActions>>
     \/ \E jr \in JourneyResponses(journey), pd \in ProgressResponses :
        \E lastPos \in LastPositions(jr.n) :
          LET idx == InitialIndex(jr.n, pd, lastPos)
          IN /\ journey' = jr /\ progress' = pd /\ loading' = FALSE
             /\ currentResourceIndex' = idx
             /\ visProgress' = pd
             /\ Commit(trackingEffect(Bundle, markingComplete, jr, idx))
             /\ UNCHANGED <<markingComplete, skipTimeTrackingRef, mounted,
                            hidden, restartTimers, clearTimers, toggles,
                            pendingNav, faults, userActions>>

\* ---- timers and time -----------------------------------------------------
\* no timeout of 50, 100 or 500 ms is pending
ShortTimersDone ==
  /\ effectTimeout = Null /\ clearTimers = 0
  /\ \A r \in Resources : restartTimers[r] = 0

\* 30 s pass while a context is set; every live interval runs its callback.
\* The timeouts of the page are far shorter and have fired by then.
Tick ==
  /\ UNCHANGED besidesJourney
  /\ timeTrackingRef.startTime # Null /\ now < MaxTime
  /\ ShortTimersDone
  /\ LET t == now + TickHalfMinutes
         ref == timeTrackingRef
         live == (IF ref.intervalId THEN 1 ELSE 0) + orphanIntervals
         m == TimeSpent(ref, t)
         fires == live > 0 /\ ref.resourceId # Null /\ WorthSending(m)
     IN Commit([Bundle EXCEPT
          !.now = t,
          !.rep = IF fires THEN @ + live * m ELSE @,
          !.out = IF fires THEN {Req("time", ref.resourceId, m)} ELSE {}])
  /\ UNCHANGED <<react, skipTimeTrackingRef, mounted, hidden, restartTimers,
                 clearTimers, toggles, pendingNav, faults, userActions>>

\* the 50 ms timeout of the tracking effect: startTimeTracking(resourceId)
EffectTimeoutFires ==
  /\ UNCHANGED besidesJourney
  /\ effectTimeout # Null
  /\ LET r == effectTimeout
         b == startTimeTracking([Bundle EXCEPT !.eff = Null], r,
                                isResourceCompleted(r), skipTimeTrackingRef)
     IN /\ PendingContinuations(b, pendingNav) <= MaxPendingStops
        /\ Commit(b)
  /\ UNCHANGED <<react, skipTimeTrackingRef, mounted, hidden, restartTimers,
                 clearTimers, toggles, pendingNav, faults, userActions>>

\* visibilitychange: its handler holds the progress of the render in which
\* currentResourceIndex or journey.resources last changed
handleVisibilityChange ==
  /\ UNCHANGED besidesJourney
  /\ mounted /\ UserActs
  /\ hidden' = ~hidden
  /\ LET b == IF hidden' THEN stopTimeTracking(Bundle)
              ELSE IF HasResource(journey, currentResourceIndex)
              THEN LET r == ResourceId(currentResourceIndex)
                   IN startTimeTracking(Bundle, r,
                                        CompletedIn(visProgress, r),
                                        skipTimeTrackingRef)
              ELSE Bundle
     IN /\ PendingContinuations(b, pendingNav) <= MaxPendingStops
        /\ Commit(b)
  /\ UNCHANGED <<react, skipTimeTrackingRef, mounted, restartTimers,
                 clearTimers, toggles, pendingNav, faults>>

\* a suspended stopTimeTracking resumes (its time write answered or failed)
StopResumes ==
  /\ UNCHANGED besidesJourney
  /\ \E r \in Resources :
       /\ pendingStops[r] > 0
       /\ Commit([stopResumed(Bundle) EXCEPT !.stops[r] = @ - 1])
  /\ UNCHANGED <<react, skipTimeTrackingRef, mounted, hidden, restartTimers,
                 clearTimers, toggles, pendingNav, faults, userActions>>

\* savePosition resumes after its await: startTimeTracking(target)
SavePositionResumes ==
  \E k \in NavKeys :
    /\ UNCHANGED besidesJourney
    /\ pendingNav[k] > 0
    /\ pendingNav' = [pendingNav EXCEPT ![k] = @ - 1]
    /\ Commit(startTimeTracking(stopResumed(Bundle), k[1], k[2],
                                skipTimeTrackingRef))
    /\ UNCHANGED <<react, skipTimeTrackingRef, mounted, hidden,
                   restartTimers, clearTimers, toggles, faults, userActions>>

\* the backend handles a mark-in-progress request, or the request is lost
ServerMarkInProgress ==
  \E r \in inProgressReqs, lost \in BOOLEAN :
    /\ UNCHANGED besidesJourney
    /\ inProgressReqs' = inProgressReqs \ {r}
    /\ server' = IF lost THEN server
                 ELSE [server EXCEPT ![r] = MarkInProgress(@)]
    /\ sentNow' = {}
    /\ UNCHANGED <<react, skipTimeTrackingRef, timeTrackingRef, mounted,
                   hidden, now, orphanIntervals, effectTimeout,
                   restartTimers, clearTimers, toggles, pendingStops,
                   pendingNav, faults, userActions,
                   reportedMinutes>>

\* ---- navigation ----------------------------------------------------------
\* setCurrentResourceIndex(idx); savePosition(idx): the handler, the render
\* it causes, and savePosition's continuation when its stop did not suspend
Navigate(idx) ==
  LET r == ResourceId(idx)
      suspended == StopSuspends(Bundle)
      key == <<r, isResourceCompleted(r)>>
      \* await stopTimeTracking(): this await belongs to savePosition
      b1 == [stopTimeTracking(Bundle) EXCEPT !.stops = pendingStops]
      b2 == IF idx # currentResourceIndex
            THEN trackingEffect(b1, markingComplete, journey, idx)
            ELSE b1
      b3 == IF suspended THEN b2
            ELSE startTimeTracking(b2, r, isResourceCompleted(r),
                                   skipTimeTrackingRef)
      nav == IF suspended THEN [pendingNav EXCEPT ![key] = @ + 1]
             ELSE pendingNav
  IN /\ Rendered /\ UserActs
     /\ UNCHANGED besidesJourney
     /\ PendingContinuations(b3, nav) <= MaxPendingStops
     /\ currentResourceIndex' = idx
     /\ pendingNav' = nav
     /\ visProgress' = IF idx # currentResourceIndex THEN progress
                       ELSE visProgress
     /\ Commit(b3)
     /\ UNCHANGED <<journey, progress, loading, markingComplete,
                    skipTimeTrackingRef, mounted, hidden, restartTimers,
                    clearTimers, toggles, faults>>

handleNext ==
  /\ journey # NoJourney /\ currentResourceIndex < journey.n - 1
  /\ Navigate(currentResourceIndex + 1)

handlePrevious ==
  /\ currentResourceIndex > 0
  /\ Navigate(currentResourceIndex - 1)

handleResourceClick ==
  /\ journey # NoJourney
  /\ \E idx \in 0..(journey.n - 1) : Navigate(idx)

\* ---- unmount -------------------------------------------------------------
\* the cleanups of the tracking effect and of the unmount effect; the state
\* of the component is dropped with it
Unmount ==
  /\ UNCHANGED besidesJourney
  /\ mounted /\ mounted' = FALSE /\ UserActs
  /\ progress' = NoProgress /\ visProgress' = NoProgress
  /\ currentResourceIndex' = 0 /\ markingComplete' = Null
  /\ hidden' = FALSE
  /\ LET b1 == IF HadCleanup
               THEN stopTimeTracking([Bundle EXCEPT !.eff = Null])
               ELSE Bundle
         b2 == stopTimeTracking(b1)
     IN /\ PendingContinuations(b2, pendingNav) <= MaxPendingStops
        /\ Commit(b2)
  /\ UNCHANGED <<journey, loading, skipTimeTrackingRef, restartTimers,
                 clearTimers, toggles, pendingNav, faults>>

\* ---- handleMarkComplete --------------------------------------------------
FreeSlots == {k \in 1..MaxToggles : toggles[k].pc = "idle"}

\* const expectedCompleted = isCurrentlyCompleted ? 0 : 2
ExpectedCompleted(tg) == IF tg.was THEN 0 ELSE 2

\* handleMarkComplete without its guard
NeverProcessing(r) == FALSE

\* the guard at the head of handleMarkComplete
AlreadyProcessing(r) == markingComplete = r

\* handleMarkComplete(currentResource.id) up to its first await, and the
\* render that setMarkingComplete causes
handleMarkComplete ==
  /\ UNCHANGED besidesJourney
  /\ Rendered /\ UserActs
  /\ LET r == ResourceId(currentResourceIndex)
     IN IF AlreadyProcessing(r)
        THEN /\ Commit([Bundle EXCEPT !.out = {Req("rejected", r, 0)}])
             /\ UNCHANGED <<react, skipTimeTrackingRef, mounted, hidden,
                            restartTimers, clearTimers, toggles, pendingNav,
                            faults>>
        ELSE /\ FreeSlots # {}
             /\ LET k == CHOOSE x \in FreeSlots : \A y \in FreeSlots : x <= y
                    was == isResourceCompleted(r)
                    b1 == stopTimeTracking(Bundle)
                    b2 == [b1 EXCEPT !.out = @ \cup
                             {Req(IF was THEN "incomplete" ELSE "complete",
                                  r, 0)}]
                    b3 == trackingEffect(b2, r, journey,
                                         currentResourceIndex)
                IN /\ PendingContinuations(b3, pendingNav) <= MaxPendingStops
                   /\ toggles' = [toggles EXCEPT ![k] =
                        [pc |-> "request", rid |-> r, was |-> was,
                         retries |-> ConfirmRetries]]
                   /\ Commit(b3)
             /\ markingComplete' = r
             /\ skipTimeTrackingRef' = r
             /\ UNCHANGED <<journey, progress, loading, currentResourceIndex,
                            visProgress, mounted, hidden, restartTimers,
                            clearTimers, pendingNav, faults>>

\* the backend handles the toggle and answers
ToggleAnswered ==
  \E k \in 1..MaxToggles :
    /\ UNCHANGED besidesJourney
    /\ toggles[k].pc = "request"
    /\ server' = [server EXCEPT ![toggles[k].rid] =
                    IF toggles[k].was THEN MarkIncomplete(@)
                    ELSE MarkCompleted(@)]
    /\ toggles' = [toggles EXCEPT ![k].pc = "confirm"]
    /\ sentNow' = {}
    /\ UNCHANGED <<react, skipTimeTrackingRef, timeTrackingRef, mounted,
                   hidden, now, orphanIntervals, effectTimeout,
                   restartTimers, clearTimers, pendingStops, pendingNav,
                   inProgressReqs, faults, userActions,
                   reportedMinutes>>

\* finally { setMarkingComplete(null); setTimeout(clear skip flag, 500) }
\* together with the state `pr`, `jr`, `idx` set just before it (`changed`:
\* a setter was called with a new object), and the render they cause
Finally(k, pr, jr, idx, reload, restart, changed) ==
  LET b == IF mounted /\ (changed \/ markingComplete # Null)
           THEN trackingEffect(Bundle, Null, jr, idx)
           ELSE Bundle
  IN /\ toggles' = [toggles EXCEPT ![k] = Idle]
     /\ IF mounted
        THEN /\ progress' = pr /\ journey' = jr
             /\ currentResourceIndex' = idx /\ markingComplete' = Null
             /\ visProgress' = IF reload THEN pr ELSE visProgress
        ELSE UNCHANGED <<progress, journey, currentResourceIndex,
                         markingComplete, visProgress>>
     /\ IF restart
        THEN /\ restartTimers[toggles[k].rid] < MaxTimers
             /\ restartTimers' =
                  [restartTimers EXCEPT ![toggles[k].rid] = @ + 1]
             /\ UNCHANGED clearTimers
        ELSE /\ clearTimers < MaxTimers
             /\ clearTimers' = clearTimers + 1
             /\ UNCHANGED restartTimers
     /\ PendingContinuations(b, pendingNav) <= MaxPendingStops
     /\ Commit(b)
     /\ UNCHANGED <<loading, skipTimeTrackingRef, mounted, hidden,
                    pendingNav, userActions>>

\* the toggle request fails: catch (alert), finally
ToggleFails ==
  \E k \in 1..MaxToggles :
    /\ UNCHANGED besidesJourney
    /\ toggles[k].pc = "request"
    /\ faults < MaxFaults /\ faults' = faults + 1
    /\ Finally(k, progress, journey, currentResourceIndex, FALSE, FALSE,
               FALSE)

\* a pass of the loop that leaves the counter as it was
RetriesKept(retries) == retries

\* retries--
RetriesLeft(retries) == retries - 1

\* one pass of the confirmation loop: the delay, getProgressSummary, the
\* comparison; on a match the code after the loop, and finally
ToggleConfirm ==
  \E k \in 1..MaxToggles, ok \in BOOLEAN :
    /\ UNCHANGED besidesJourney
    /\ toggles[k].pc = "confirm"
    /\ ok \/ faults < MaxFaults
    /\ faults' = IF ok THEN faults ELSE faults + 1
    /\ IF ok /\ server[toggles[k].rid] = ExpectedCompleted(toggles[k])
       THEN Finally(k, Summary(server), journey, currentResourceIndex,
                    FALSE, ExpectedCompleted(toggles[k]) = 0, TRUE)
       ELSE /\ toggles' = [toggles EXCEPT
                 ![k].retries = RetriesLeft(@),
                 ![k].pc = IF RetriesLeft(toggles[k].retries) = 0
                           THEN "reload" ELSE "confirm"]
            /\ Commit(Bundle)
            /\ UNCHANGED <<react, skipTimeTrackingRef, mounted, hidden,
                           restartTimers, clearTimers, pendingNav,
                           userActions>>

\* retries exhausted: await loadJourneyData(); return; finally
ToggleReload ==
  \E k \in 1..MaxToggles :
    /\ UNCHANGED besidesJourney
    /\ toggles[k].pc = "reload"
    /\ \/ /\ faults < MaxFaults /\ faults' = faults + 1  \* getJourney throws
          /\ Finally(k, progress, journey, currentResourceIndex, FALSE,
                     FALSE, FALSE)
       \/ \E pd \in ProgressResponses :
          \E lastPos \in LastPositions(journey.n) :
            /\ Finally(k, pd, journey,
                       InitialIndex(journey.n, pd, lastPos), TRUE, FALSE,
                       TRUE)
            /\ UNCHANGED faults

\* setTimeout(() => { skip flag = null; startTimeTracking(resourceId) }, 100)
\* in the closure of the click: its progress has the resource completed.
\* The 500 ms timer of the same finally follows it.
RestartTimerFires ==
  \E r \in Resources :
    /\ UNCHANGED besidesJourney
    /\ restartTimers[r] > 0 /\ clearTimers < MaxTimers
    /\ restartTimers' = [restartTimers EXCEPT ![r] = @ - 1]
    /\ clearTimers' = clearTimers + 1
    /\ skipTimeTrackingRef' = Null
    /\ LET b == startTimeTracking(Bundle, r, TRUE, Null)
       IN /\ PendingContinuations(b, pendingNav) <= MaxPendingStops
          /\ Commit(b)
    /\ UNCHANGED <<react, mounted, hidden, toggles, pendingNav, faults, userActions>>

\* setTimeout(() => { skipTimeTrackingRef.current = null }, 500)
ClearTimerFires ==
  /\ UNCHANGED besidesJourney
  /\ clearTimers > 0
  /\ clearTimers' = clearTimers - 1
  /\ skipTimeTrackingRef' = Null
  /\ Commit(Bundle)
  /\ UNCHANGED <<react, mounted, hidden, restartTimers, toggles, pendingNav,
                 faults, userActions>>

Next ==
  \/ LoadJourneyData
  \/ Tick
  \/ EffectTimeoutFires
  \/ handleVisibilityChange
  \/ StopResumes
  \/ SavePositionResumes
  \/ ServerMarkInProgress
  \/ handleNext
  \/ handlePrevious
  \/ handleResourceClick
  \/ Unmount
  \/ handleMarkComplete
  \/ ToggleAnswered
  \/ ToggleFails
  \/ ToggleConfirm
  \/ ToggleReload
  \/ RestartTimerFires
  \/ ClearTimerFires

Spec == JInit /\ [][Next]_vars

\* ---- properties of the journey page -------------------------------------
ToggleKinds == {"complete", "incomplete"}

\* C1: no silent downgrade.  A record with completed = 2 keeps it through
\* every step (view events with their mark-in-progress requests, time
\* writes, reads); the only step that lowers it is the backend handling a
\* mark-incomplete request, which the user's toggle of a resource shown as
\* completed sent.
C1_NoSilentDowngrade ==
  [][\A r \in Resources :
       server[r] = 2 /\ server'[r] # 2 =>
         \E k \in 1..MaxToggles :
           /\ toggles[k].pc = "request" /\ toggles[k].rid = r
           /\ toggles[k].was
           /\ toggles'[k].pc = "confirm"]_vars

\* a completed resource was opened and tracked: its mark-in-progress request
\* is no longer in flight and minutes were written for it
C1_Witness ==
  \E r \in Resources :
    /\ server[r] = 2
    /\ timeTrackingRef.resourceId = r /\ timeTrackingRef.startTime # Null
    /\ r \notin inProgressReqs
    /\ reportedMinutes > 0

\* C2: no double-counted time.  The minutes sent in time writes for the
\* interval that the tracking context holds never exceed the whole minutes
\* that have passed since the context was started.
C2_NoDoubleCountedTime ==
  timeTrackingRef.startTime # Null =>
    reportedMinutes <= TimeSpent(timeTrackingRef, now)

\* C3: navigation switches tracking without loss.  A stopTimeTracking of
\* resource A that was suspended at its time write finds, when it resumes,
\* no context of another resource B: once the page has settled (its 50 ms
\* timeout has fired), the context of B with its running periodic timer
\* keeps its start time and resource id.
C3_PendingStopKeepsContext ==
  [][\A a \in Resources :
       (/\ pendingStops'[a] < pendingStops[a]
        /\ timeTrackingRef.intervalId /\ effectTimeout = Null
        /\ timeTrackingRef.resourceId \notin {a, Null})
       => /\ timeTrackingRef'.startTime # Null
          /\ timeTrackingRef'.resourceId # Null]_vars

\* C4: marking the tracked resource complete stops its timer, and no tick
\* for it fires afterwards.  A resource that the page shows as completed has
\* no running periodic timer in the tracking context, once the toggle has
\* ended and the 50 ms timeout of the render that shows it has fired.
C4_TimerStoppedOnComplete ==
  \A r \in Resources :
    (/\ isResourceCompleted(r) /\ effectTimeout = Null
     /\ \A k \in 1..MaxToggles : toggles[k].pc = "idle")
    => ~(timeTrackingRef.intervalId /\ timeTrackingRef.resourceId = r)

C6_FirstReadConfirms ==
  [][\A k \in 1..MaxToggles :
       (/\ toggles[k].pc = "confirm" /\ toggles[k].retries = ConfirmRetries
        /\ toggles'[k] # toggles[k]
        /\ faults' = faults)
       => toggles'[k] = Idle]_vars

\* C10: progress requests only against a ready journey.  Every request a
\* step sends (mark-in-progress, time, complete, incomplete) is sent by a
\* page whose loaded journey has status ready.
C10_RequestsOnlyWhenReady ==
  sentNow # {} => journey # NoJourney /\ journey.status = "ready"

\* C11: progress operations never change the journey.  A step of a
\* completion toggle (its request, answer, confirmation reads, reload) or of
\* time tracking (a 30 s tick, the end of a stop) leaves the loaded journey
\* and the selected resource index as they were.
C11_ProgressOpsKeepJourney ==
  [][(\/ toggles' # toggles
      \/ now' = now + TickHalfMinutes
      \/ \E r \in Resources : pendingStops'[r] < pendingStops[r])
     => journey' = journey /\ currentResourceIndex' = currentResourceIndex]_vars

\* C12: time writes are positive increments.  Every updateTimeSpent request
\* a step sends, from the interval callback or from stopTimeTracking,
\* carries minutes > 0.
C12_TimeWritesPositive ==
  \A q \in sentNow : q.kind = "time" => q.minutes > 0

\* stopTimeTracking flushed whole minutes and waits for the answer, the
\* interval cleared
C12_Witness ==
  /\ \E q \in sentNow : q.kind = "time"
  /\ ~timeTrackingRef.intervalId
  /\ \E r \in Resources : pendingStops[r] > 0

\* C21: the resume position is a valid index.  Once a journey with
\* resources is loaded, after the load and after every next, previous and
\* roadmap click, currentResourceIndex is an index of journey.resources.
C21_IndexValid ==
  (journey # NoJourney /\ ~loading /\ journey.n > 0)
    => currentResourceIndex \in 0..(journey.n - 1)

\* C22: no mark-in-progress for a completed resource.  A mark-in-progress
\* request that a step sends is for a resource that the progress summary
\* held by the page does not report as completed.
C22_NoInProgressForCompleted ==
  \A q \in sentNow :
    q.kind = "in-progress" => ~isResourceCompleted(q.rid)

\* The journey page with its timers and awaits running to their end: a
\* timeout that is set fires, a request that was sent is answered, a
\* suspended handler resumes.  The user and the 30 s clock are not forced.
LiveSpec ==
  /\ Spec
  /\ WF_vars(EffectTimeoutFires) /\ WF_vars(RestartTimerFires)
  /\ WF_vars(ClearTimerFires)
  /\ WF_vars(StopResumes) /\ WF_vars(SavePositionResumes)
  /\ WF_vars(ServerMarkInProgress)
  /\ WF_vars(ToggleAnswered) /\ WF_vars(ToggleConfirm)
  /\ WF_vars(ToggleReload)

\* the tracking context is set for r and its interval runs
Tracking(r) ==
  /\ timeTrackingRef.resourceId = r /\ timeTrackingRef.startTime # Null
  /\ timeTrackingRef.intervalId

\* C23: tracking restarts after mark-incomplete.  Once the toggle that
\* marked the viewed resource incomplete is confirmed (its restart timer is
\* set), the page comes to track that resource again unless the user acts
\* in the meantime.
C23_TrackingRestarts ==
  \A u \in 1..MaxUserActions :
    (/\ userActions = u /\ Rendered
     /\ restartTimers[ResourceId(currentResourceIndex)] > 0)
    ~> (\/ userActions # u
        \/ /\ HasResource(journey, currentResourceIndex)
           /\ Tracking(ResourceId(currentResourceIndex)))

\* C24: at most one interval is live.  Every interval that was created
\* and not cleared is the one held in timeTrackingRef.current.intervalId.
C24_OneIntervalLive == orphanIntervals = 0

\* after a navigation: the interval of the new resource runs while a
\* stopTimeTracking of the previous resource still waits for its answer
C24_Witness ==
  /\ timeTrackingRef.intervalId
  /\ \E a \in Resources :
       pendingStops[a] > 0 /\ timeTrackingRef.resourceId \notin {a, Null}


\* ---- the journey page within one half minute ------------------------------
\* The same page with a user who takes up to MaxQuickActions actions (toggles
\* and Previous / Next) before the first interval tick: every handler is the
\* one above, no time passes and the tab stays visible.
MaxQuickActions == 4

QuickInit ==
  /\ JourneyStart /\ server = [r \in Resources |-> 0]
  /\ userBudget = MaxQuickActions
  /\ RoadmapOff /\ PreviewOff /\ ChatOff /\ ExtrasOff

QuickNext ==
  \/ LoadJourneyData
  \/ EffectTimeoutFires
  \/ ServerMarkInProgress
  \/ handleNext
  \/ handlePrevious
  \/ handleMarkComplete
  \/ ToggleAnswered
  \/ ToggleFails
  \/ ToggleConfirm
  \/ ToggleReload
  \/ RestartTimerFires
  \/ ClearTimerFires

QuickSpec == QuickInit /\ [][QuickNext]_vars

\* a step of the page that no user takes: a timer fires or an awaited call
\* returns
QuickContinues ==
  \/ EffectTimeoutFires
  \/ RestartTimerFires
  \/ ClearTimerFires
  \/ ServerMarkInProgress
  \/ ToggleAnswered
  \/ ToggleConfirm
  \/ ToggleReload

\* a timer that is due fires and an awaited call returns, sooner or later
QuickLiveSpec == QuickSpec /\ WF_vars(QuickContinues)

\* C27: every completion toggle terminates.  An invocation of
\* handleMarkComplete makes at most ConfirmRetries confirmation reads, each
\* one either ending the invocation or using up a retry, and at most one
\* full reload, which ends it; the step that ends it, whatever the outcome,
\* resets markingComplete to null on the mounted page and arms a timer that
\* clears the skip flag; every invocation ends, and a skip flag that is set
\* is cleared later.
C27_ToggleTerminates ==
  /\ [][\A k \in 1..MaxToggles :
          /\ toggles[k].pc = "confirm" =>
               /\ toggles[k].retries \in 1..ConfirmRetries
               /\ toggles'[k] # toggles[k] =>
                    \/ toggles'[k].pc = "idle"
                    \/ /\ toggles'[k].retries = toggles[k].retries - 1
                       /\ toggles'[k].pc =
                            IF toggles'[k].retries = 0 THEN "reload"
                            ELSE "confirm"
          /\ toggles[k].pc = "reload" /\ toggles'[k] # toggles[k] =>
               toggles'[k].pc = "idle"
          /\ toggles[k].pc # "idle" /\ toggles'[k].pc = "idle" =>
               /\ mounted => markingComplete' = Null
               /\ \/ clearTimers' > clearTimers
                  \/ restartTimers'[toggles[k].rid]
                       > restartTimers[toggles[k].rid]]_vars
  /\ \A k \in 1..MaxToggles :
       toggles[k].pc # "idle" ~> toggles[k].pc = "idle"
  /\ skipTimeTrackingRef # Null ~> skipTimeTrackingRef = Null

\* a toggle was never confirmed: its five reads are used up and the full
\* reload is due, with markingComplete and the skip flag still set
C27_Witness ==
  \E k \in 1..MaxToggles :
    /\ toggles[k].pc = "reload" /\ toggles[k].retries = 0
    /\ markingComplete = toggles[k].rid
    /\ skipTimeTrackingRef = toggles[k].rid

\* the invocations of handleMarkComplete for r that have not returned
TogglesInFlight(r) ==
  {k \in 1..MaxToggles : toggles[k].pc # "idle" /\ toggles[k].rid = r}

\* C25: one toggle per resource.  While an invocation of handleMarkComplete
\* for a resource has not returned, no second invocation for that resource
\* gets past the guard, so at most one complete / incomplete request per
\* resource is in flight.
C25_OneTogglePerResource ==
  \A r \in Resources : Cardinality(TogglesInFlight(r)) <= 1


(***************************************************************************)
(* Part 2: LearningRoadmap (app/components/learning/LearningRoadmap.tsx):  *)
(* the sections it builds from journey.resources and journey.sections.     *)
(* A built section is [name, resources], resources being the globalIndex   *)
(* of each entry in display order.                                         *)
(***************************************************************************)
\* the ids a stored section may list: those of the resources and one more
StoredIds(n) == 1..(n + 1)

SeqsUpTo(S, k) == UNION {[1..m -> S] : m \in 0..k}

\* resourceMap.get(rid) !== undefined
InResourceMap(n, rid) == rid \in 1..n

\* resourceMap.get(rid).index
GlobalIndex(rid) == rid - 1

\* insert x into the ascending sequence s, after its equals
RECURSIVE InsertSorted(_, _)
InsertSorted(s, x) ==
  IF s = <<>> THEN <<x>>
  ELSE IF x < Head(s) THEN <<x>> \o s
  ELSE <<Head(s)>> \o InsertSorted(Tail(s), x)

\* resources.sort((a, b) => a.globalIndex - b.globalIndex)
RECURSIVE SortByGlobalIndex(_)
SortByGlobalIndex(s) ==
  IF s = <<>> THEN <<>>
  ELSE InsertSorted(SortByGlobalIndex(SubSeq(s, 1, Len(s) - 1)), s[Len(s)])

\* section.resources.map(rid => resourceMap.get(rid)).filter(defined).map(...)
MapSection(n, stored) ==
  LET known == SelectSeq(stored, LAMBDA rid : InResourceMap(n, rid))
  IN [name |-> "stored",
      resources |-> [i \in 1..Len(known) |-> GlobalIndex(known[i])]]

\* resourcesInSections, after every stored section was mapped
ResourcesInSections(n, stored) ==
  {rid \in 1..n : \E i \in 1..Len(stored) : \E j \in 1..Len(stored[i]) :
                    stored[i][j] = rid}

\* missingResourcesList: the resources in no section, in their original order
RECURSIVE AscendingSeq(_)
AscendingSeq(S) ==
  IF S = {} THEN <<>>
  ELSE LET m == CHOOSE x \in S : \A y \in S : x <= y
       IN <<m>> \o AscendingSeq(S \ {m})

MissingResourcesList(n, stored) ==
  AscendingSeq({GlobalIndex(rid) :
                  rid \in (1..n) \ ResourcesInSections(n, stored)})

\* the sections of a render
BuildSections(n, stored) ==
  IF Len(stored) > 0
  THEN LET mapped == [i \in 1..Len(stored) |-> MapSection(n, stored[i])]
           kept == SelectSeq(mapped, LAMBDA sec : Len(sec.resources) > 0)
           missing == MissingResourcesList(n, stored)
       IN IF Len(missing) > 0
          THEN IF Len(kept) > 0
               THEN [kept EXCEPT ![Len(kept)].resources =
                       SortByGlobalIndex(@ \o missing)]
               ELSE Append(kept, [name |-> "Additional Resources",
                                  resources |-> missing])
          ELSE kept
  ELSE <<[name |-> "Learning Path",
          resources |-> [i \in 1..n |-> i - 1]]>>

\* Math.round(p / q) for p >= 0, q > 0: halves go up
MathRound(p, q) == (2 * p + q) \div (2 * q)

\* Object.values(progressByResource).filter(p => p.completed === 2).length
CompletedValues(pbr) ==
  Cardinality({k \in DOMAIN pbr.completed : pbr.completed[k] = 2})

\* a count that looks only at the resources of the journey
CompletedOfJourney(n, pbr) ==
  Cardinality({k \in DOMAIN pbr.completed \cap 1..n : pbr.completed[k] = 2})

\* const overallProgress = progressByResource ? Math.round(...) : 0
OverallProgress(n, pbr) ==
  IF pbr.has
  THEN MathRound(CompletedValues(pbr) * 100, IF n = 0 THEN 1 ELSE n)
  ELSE 0

\* the progress maps the component may be given: undefined, or records for
\* any of the ids a stored section may list
ProgressMaps(n) ==
  {NoProgressMap} \cup
  UNION {{[has |-> TRUE, completed |-> f] : f \in [S -> 0..2]} :
         S \in SUBSET StoredIds(n)}

RoadmapInit ==
  /\ JourneyStart /\ server = [r \in Resources |-> 0]
  /\ userBudget = 0
  /\ PreviewOff /\ ChatOff /\ ExtrasOff
  /\ roadmapResources \in 1..NumResources
  /\ roadmapStored \in
       SeqsUpTo(SeqsUpTo(StoredIds(roadmapResources), MaxSectionLen),
                MaxSections)
  /\ sections = <<>>
  /\ progressByResource \in ProgressMaps(roadmapResources)
  /\ overallProgress = Null

\* LearningRoadmap renders with the journey and the progress of its props
RenderRoadmap ==
  /\ sections = <<>>
  /\ sections' = BuildSections(roadmapResources, roadmapStored)
  /\ overallProgress' = OverallProgress(roadmapResources, progressByResource)
  /\ UNCHANGED <<roadmapResources, roadmapStored, progressByResource>>
  /\ UNCHANGED besidesRoadmap

RoadmapNext == RenderRoadmap

RoadmapSpec == RoadmapInit /\ [][RoadmapNext]_vars

\* all entries of the built sections, in display order
RECURSIVE Flatten(_)
Flatten(ss) ==
  IF ss = <<>> THEN <<>> ELSE Head(ss).resources \o Flatten(Tail(ss))

Occurrences(x, s) == Cardinality({i \in 1..Len(s) : s[i] = x})

\* C7: section coverage at read time.  Whatever the stored sections, the
\* sections that LearningRoadmap builds contain every resource of
\* journey.resources exactly once.
C7_EveryResourceExactlyOnce ==
  sections # <<>> =>
    \A rid \in 1..roadmapResources :
      Occurrences(GlobalIndex(rid), Flatten(sections)) = 1

\* C16: overall progress.  The percentage LearningRoadmap shows is
\* round(100 * completed_count / total_resources), completed_count being
\* the number of resources of the journey with completed = 2, and lies
\* between 0 and 100.
C16_OverallProgress ==
  overallProgress # Null =>
    /\ overallProgress =
         MathRound(100 * CompletedOfJourney(roadmapResources,
                                            progressByResource),
                   roadmapResources)
    /\ overallProgress \in 0..100

(***************************************************************************)
(* Part 3: the journey preview page (JourneyPreviewPage): what it renders  *)
(* for the journey it fetched.  A view is [kind, heading]: kind is         *)
(* "loading", "null", "status" (the card with the spinner) or "roadmap"    *)
(* (header, overview cards, LearningRoadmap, call to action); heading is   *)
(* the text of the card's <h2>, one entry per expression that rendered.    *)
(***************************************************************************)
PreviewProgressValues == {Null, 0, 50, 100}

\* the condition of the not-ready branch, without its test of the status
PreviewNotReadyNoStatus(jr) == jr = NoJourney \/ jr.n = 0

\* !journey || journey.status !== 'ready' || !journey.resources ||
\* journey.resources.length === 0
PreviewNotReady(jr) == jr = NoJourney \/ jr.status # "ready" \/ jr.n = 0

\* {cond && 'text'}: the text when the condition holds, else nothing
Shown(cond, text) == IF cond THEN <<text>> ELSE <<>>

\* the <h2> of the not-ready card
StatusHeading(jr) ==
  Shown(jr # NoJourney /\ jr.status = "pending", "Preparing your journey...")
  \o Shown(jr # NoJourney /\ jr.status = "scraping", "Finding resources...")
  \o Shown(jr # NoJourney /\ jr.status = "curating",
           "Organizing your path...")
  \o Shown(jr = NoJourney, "Journey not found")

\* the render of the page
PreviewRender(auth, ld, jr) ==
  IF auth = "loading" \/ ld THEN [kind |-> "loading", heading |-> <<>>]
  ELSE IF auth # "yes" THEN [kind |-> "null", heading |-> <<>>]
  ELSE IF PreviewNotReady(jr)
  THEN [kind |-> "status", heading |-> StatusHeading(jr)]
  ELSE [kind |-> "roadmap", heading |-> <<>>]

PreviewRendered ==
  previewView' = PreviewRender(previewAuth', previewLoading', previewJourney')

PreviewInit ==
  /\ JourneyStart /\ server = [r \in Resources |-> 0]
  /\ userBudget = 0
  /\ RoadmapOff /\ ChatOff /\ ExtrasOff
  /\ previewAuth = "loading" /\ previewJourney = NoJourney
  /\ previewProgress = Null /\ previewLoading = TRUE
  /\ fetchJourneyRef = FALSE
  /\ previewView = PreviewRender("loading", TRUE, NoJourney)

\* useAuth settles or changes; the effect redirects, or calls fetchJourney,
\* which returns at once when a fetch is in flight
PreviewAuthChanges ==
  /\ \E a \in {"yes", "no"} :
       /\ a # previewAuth
       /\ previewAuth' = a
       /\ IF a = "yes" /\ ~fetchJourneyRef
          THEN fetchJourneyRef' = TRUE /\ previewLoading' = TRUE
          ELSE UNCHANGED <<fetchJourneyRef, previewLoading>>
  /\ UNCHANGED <<previewJourney, previewProgress>>
  /\ PreviewRendered
  /\ UNCHANGED besidesPreview

\* both requests of fetchJourney are answered (the summary may be null)
PreviewFetchSucceeds ==
  /\ fetchJourneyRef
  /\ previewJourney' \in [status : Statuses, n : 0..NumResources]
  /\ previewProgress' \in PreviewProgressValues
  /\ previewLoading' = FALSE /\ fetchJourneyRef' = FALSE
  /\ UNCHANGED previewAuth
  /\ PreviewRendered
  /\ UNCHANGED besidesPreview

\* getJourney throws: catch, finally
PreviewFetchFails ==
  /\ fetchJourneyRef
  /\ previewLoading' = FALSE /\ fetchJourneyRef' = FALSE
  /\ UNCHANGED <<previewAuth, previewJourney, previewProgress>>
  /\ PreviewRendered
  /\ UNCHANGED besidesPreview

PreviewNext ==
  \/ PreviewAuthChanges
  \/ PreviewFetchSucceeds
  \/ PreviewFetchFails

PreviewSpec == PreviewInit /\ [][PreviewNext]_vars

\* C8: a journey that is not ready is shown with its status.  Once the page
\* is past its loading view, a pending, scraping or curating journey is
\* shown as the status card whose heading is the message of that status and
\* nothing else, and the roadmap view is rendered only for a journey with
\* status ready and at least one resource.
C8_StatusShownUntilReady ==
  /\ previewView.kind = "roadmap" =>
       /\ previewJourney # NoJourney
       /\ previewJourney.status = "ready" /\ previewJourney.n >= 1
  /\ (previewAuth = "yes" /\ ~previewLoading) =>
       /\ previewJourney.status = "pending" =>
            previewView = [kind |-> "status",
                           heading |-> <<"Preparing your journey...">>]
       /\ previewJourney.status = "scraping" =>
            previewView = [kind |-> "status",
                           heading |-> <<"Finding resources...">>]
       /\ previewJourney.status = "curating" =>
            previewView = [kind |-> "status",
                           heading |-> <<"Organizing your path...">>]

\* a journey that is still curating, with resources already attached, is
\* shown with its status
C8_Witness ==
  /\ previewAuth = "yes" /\ ~previewLoading
  /\ previewJourney.status = "curating" /\ previewJourney.n > 0
  /\ previewView.kind = "status"

\* C17: a failed journey is not shown as being prepared.  For a fetched
\* journey with status failed the preview page does not render the status
\* card (the spinner with 'This may take a few minutes').
C17_FailedNotShownAsPreparing ==
  (previewAuth = "yes" /\ ~previewLoading /\ previewJourney.status = "failed")
    => previewView.kind # "status"

(***************************************************************************)
(* Part 4: the start page (StartPageContent) and the chat page (ChatPage): *)
(* handleSendMessage, handleConversationSelect, handleNewChat and the      *)
(* answers of the chat endpoints.  A request in flight carries the closure *)
(* of the handler that sent it.                                            *)
(***************************************************************************)
Texts == {"a", "b"}
ConversationIds == 1..MaxConversations
JourneyIds == {1}

UserMessage(text) == [role |-> "user", content |-> text]
AssistantMessage == [role |-> "assistant", content |-> "reply"]

\* the errorMessage of the catch block
ErrorMessage ==
  [role |-> "assistant",
   content |-> "Sorry, I encountered an error. Please try again."]

\* const newMessages = [...messages, userMessage]
NewMessages(q) == Append(q.before, UserMessage(q.text))

\* a catch block that shows the error message alone
FailedMessagesAlone(newMessages) == <<ErrorMessage>>

\* setMessages([...newMessages, errorMessage])
FailedMessages(newMessages) == Append(newMessages, ErrorMessage)

\* the condition under which handleSendMessage calls startChat
StartsChat ==
  IF chatPage = "start" THEN Len(messages) = 0
  ELSE Len(messages) = 0 /\ conversationId = Null

\* a reply taken as ready on its flag alone
ReadyFlagAlone(ready, jid) == ready

\* if (response.ready && response.journey_id)
ReadyResponse(ready, jid) == ready /\ jid # Null

\* a control that calls handleSendMessage is rendered: on the start page the
\* input, the suggestions and the format selector under !isReady, the
\* example topics under messages.length === 0; on the chat page the input
SendControlShown ==
  IF chatPage = "start" THEN ~isReady \/ Len(messages) = 0
  ELSE TRUE

\* the messages of a stored conversation
History(conv) == <<UserMessage("a"), AssistantMessage>>

ChatInit ==
  /\ JourneyStart /\ server = [r \in Resources |-> 0]
  /\ userBudget = 0
  /\ RoadmapOff /\ PreviewOff /\ ExtrasOff
  /\ chatPage \in {"start", "chat"}
  /\ messages = <<>> /\ chatLoading = FALSE /\ conversationId = Null
  /\ isReady = FALSE /\ journeyId = Null
  /\ chatRequest = {} /\ chatEvent = "none"

\* handleSendMessage(text), up to its await
handleSendMessage ==
  \E text \in Texts \cup {""} :
    /\ SendControlShown
    /\ Len(messages) < MaxMessages
    /\ Cardinality(chatRequest) < MaxRequests
    /\ IF text = "" \/ chatLoading
       THEN /\ chatEvent' = "ignored"
            /\ UNCHANGED <<messages, chatLoading, chatRequest>>
       ELSE LET q == [kind |-> IF StartsChat THEN "start" ELSE "respond",
                      before |-> messages, text |-> text,
                      conv |-> conversationId]
            IN /\ messages' = NewMessages(q)
               /\ chatLoading' = TRUE
               /\ chatRequest' = chatRequest \cup {q}
               /\ chatEvent' = "sent"
    /\ UNCHANGED <<chatPage, conversationId, isReady, journeyId>>
    /\ UNCHANGED besidesChat

\* startChat / respondToChat answers: the code after the await, finally
ChatResponds ==
  \E q \in chatRequest, conv \in ConversationIds \cup {Null},
     jid \in JourneyIds \cup {Null}, ready \in BOOLEAN :
    /\ q.kind \in {"start", "respond"}
    /\ chatRequest' = chatRequest \ {q}
    /\ messages' = Append(NewMessages(q), AssistantMessage)
    /\ conversationId' = IF conv # Null THEN conv ELSE conversationId
    /\ IF chatPage = "start" /\ ReadyResponse(ready, jid)
       THEN isReady' = TRUE /\ journeyId' = jid
       ELSE UNCHANGED <<isReady, journeyId>>
    /\ chatLoading' = FALSE
    /\ chatEvent' = "answered"
    /\ UNCHANGED chatPage
    /\ UNCHANGED besidesChat

\* startChat / respondToChat throws: catch, finally
ChatFails ==
  \E q \in chatRequest :
    /\ q.kind \in {"start", "respond"}
    /\ chatRequest' = chatRequest \ {q}
    /\ messages' = FailedMessages(NewMessages(q))
    /\ chatLoading' = FALSE
    /\ chatEvent' = "failed"
    /\ UNCHANGED <<chatPage, conversationId, isReady, journeyId>>
    /\ UNCHANGED besidesChat

\* handleConversationSelect(convId), up to its await
handleConversationSelect ==
  \E conv \in ConversationIds :
    /\ Cardinality(chatRequest) < MaxRequests
    /\ conversationId' = conv
    /\ messages' = <<>>
    /\ IF chatPage = "start"
       THEN isReady' = FALSE /\ journeyId' = Null
       ELSE UNCHANGED <<isReady, journeyId>>
    /\ chatLoading' = TRUE
    /\ chatRequest' = chatRequest \cup
         {[kind |-> "history", before |-> <<>>, text |-> "", conv |-> conv]}
    /\ chatEvent' = "selected"
    /\ UNCHANGED chatPage
    /\ UNCHANGED besidesChat

\* getChatHistory (and, on the start page, getUserConversations) answers
HistoryLoaded ==
  \E q \in chatRequest, jid \in JourneyIds \cup {Null} :
    /\ q.kind = "history"
    /\ chatRequest' = chatRequest \ {q}
    /\ messages' = History(q.conv)
    /\ IF chatPage = "start" /\ jid # Null
       THEN isReady' = TRUE /\ journeyId' = jid
       ELSE UNCHANGED <<isReady, journeyId>>
    /\ chatLoading' = FALSE
    /\ chatEvent' = "history"
    /\ UNCHANGED <<chatPage, conversationId>>
    /\ UNCHANGED besidesChat

\* getChatHistory throws: catch, finally
HistoryFails ==
  \E q \in chatRequest :
    /\ q.kind = "history"
    /\ chatRequest' = chatRequest \ {q}
    /\ messages' = <<>>
    /\ chatLoading' = FALSE
    /\ chatEvent' = "history-failed"
    /\ UNCHANGED <<chatPage, conversationId, isReady, journeyId>>
    /\ UNCHANGED besidesChat

handleNewChat ==
  /\ conversationId' = Null
  /\ messages' = <<>>
  /\ IF chatPage = "start"
     THEN isReady' = FALSE /\ journeyId' = Null
     ELSE UNCHANGED <<isReady, journeyId>>
  /\ chatEvent' = "new"
  /\ UNCHANGED <<chatPage, chatLoading, chatRequest>>
  /\ UNCHANGED besidesChat

ChatNext ==
  \/ handleSendMessage
  \/ ChatResponds
  \/ ChatFails
  \/ handleConversationSelect
  \/ HistoryLoaded
  \/ HistoryFails
  \/ handleNewChat

ChatSpec == ChatInit /\ [][ChatNext]_vars

\* C9: a failed chat request never loses history.  The step in which a
\* startChat / respondToChat request fails leaves in the list every turn
\* that was there before the send, then the user's new message, then the
\* fallback reply of the assistant, in this order, and changes neither
\* isReady nor journeyId.
C9_FailureKeepsHistory ==
  [][chatEvent' = "failed" =>
       /\ \E q \in chatRequest \ chatRequest' :
            messages' = q.before \o <<UserMessage(q.text), ErrorMessage>>
       /\ isReady' = isReady /\ journeyId' = journeyId]_vars

\* a request failed in a conversation that already had a turn: the earlier
\* turn, the new message and the fallback reply are in the list
C9_Witness ==
  /\ chatEvent = "failed"
  /\ Len(messages) = 4
  /\ messages[2] = AssistantMessage
  /\ messages[3].role = "user"
  /\ messages[4] = ErrorMessage

\* C13: history is immutable once the journey exists.  On the start page,
\* from a state that holds isReady with a journey id, no invocation of
\* handleSendMessage by the user sends a request or changes the displayed
\* turns.
C13_ReadyHistoryImmutable ==
  [][(/\ chatPage = "start" /\ isReady /\ journeyId # Null
      /\ chatEvent' \in {"sent", "ignored"})
     => messages' = messages /\ chatRequest' = chatRequest]_vars

\* C14: continuing a conversation carries its state.  A message sent while
\* a conversation id is held goes out as respondToChat with that id and the
\* turns shown; startChat goes out only when no conversation id is held.
C14_ActiveConversationResponds ==
  \A q \in chatRequest :
    q.kind \in {"start", "respond"} /\ q.conv # Null => q.kind = "respond"

\* C15: ready only together with a journey id.  isReady implies a non-null
\* journeyId in every state of the start page, and the step of
\* handleNewChat or handleConversationSelect resets both and empties the
\* list, so nothing of the selected conversation is shown before the reset.
C15_ReadyWithJourneyId ==
  [][/\ isReady' => journeyId' # Null
     /\ (chatPage = "start" /\ chatEvent' \in {"selected", "new"}
          /\ <<messages, conversationId, isReady, journeyId, chatRequest>>'
               # <<messages, conversationId, isReady, journeyId, chatRequest>>)
        => ~isReady' /\ journeyId' = Null /\ messages' = <<>>]_vars

\* a stored conversation was selected and its history loaded: the page
\* holds isReady with the journey id of that conversation
C15_Witness ==
  /\ chatPage = "start" /\ chatEvent = "history"
  /\ isReady /\ journeyId # Null /\ conversationId # Null
  /\ Len(messages) > 0

\* the startChat / respondToChat requests awaiting their answer
SendsInFlight == {q \in chatRequest : q.kind \in {"start", "respond"}}

\* C26: the turns shown belong to the selected conversation.  When the
\* answer (or failure) of a send arrives after the user selected another
\* conversation or started a new chat, so that the page no longer shows
\* what the send left, the step changes neither the displayed turns nor the
\* active conversation id; and at most one send is in flight.
C26_RepliesStayInConversation ==
  /\ [][\A q \in SendsInFlight \ chatRequest' :
          (chatEvent' \in {"answered", "failed"}
             /\ (messages # NewMessages(q) \/ conversationId # q.conv))
          => messages' = messages /\ conversationId' = conversationId]_vars
  /\ [](Cardinality(SendsInFlight) <= 1)


(***************************************************************************)
(* Part 5: two sessions of the journey page open at once (two tabs or      *)
(* devices of one user).  Each JourneyDetailPage instance has its own      *)
(* timeTrackingRef (useRef); startTimeTracking and stopTimeTracking of a   *)
(* session act on the ref of that session.                                 *)
(***************************************************************************)
NumSessions == 2
Sessions == 1..NumSessions

\* one tracking context held by all sessions
SharedRef(s) == 1

\* useRef: the ref object of the component instance of session s
RefOf(s) == s

\* what startTimeTracking / stopTimeTracking of session s read and write
SessionBundle(s) ==
  [ref |-> sessionRefs[RefOf(s)], stops |-> sessionStops[s], ip |-> {},
   orph |-> 0, eff |-> Null, now |-> sessionNow[s], rep |-> 0, out |-> {}]

SessionCommit(s, b) ==
  /\ SumOver(b.stops, Resources) <= MaxPendingStops
  /\ sessionRefs' = [sessionRefs EXCEPT ![RefOf(s)] = b.ref]
  /\ sessionStops' = [sessionStops EXCEPT ![s] = b.stops]
  /\ sessionNow' = [sessionNow EXCEPT
                      ![s] = IF b.ref.startTime = Null THEN 0 ELSE b.now]
  /\ sessionSent' = b.out
  /\ sessionActing' = s
  /\ UNCHANGED besidesSessions

SessionsInit ==
  /\ JourneyStart /\ server = [r \in Resources |-> 0]
  /\ userBudget = 0
  /\ RoadmapOff /\ PreviewOff /\ ChatOff /\ ApiOff /\ HistoryOff
  /\ AuthOff /\ ListOff /\ AdminOff
  /\ sessionRefs = [s \in Sessions |-> NoTracking]
  /\ sessionStops = [s \in Sessions |-> [r \in Resources |-> 0]]
  /\ sessionNow = [s \in Sessions |-> 0]
  /\ sessionSent = {} /\ sessionActing = 0

\* a session starts or switches tracking: startTimeTracking(r), from the
\* effect's timeout or the visibilitychange handler, with the progress of
\* its closure
SessionStarts ==
  \E s \in Sessions, r \in Resources, done \in BOOLEAN :
    SessionCommit(s, startTimeTracking(SessionBundle(s), r, done, Null))

\* a session stops tracking: stopTimeTracking(), from the effect's cleanup,
\* a hidden tab or the unmount
SessionStops ==
  \E s \in Sessions :
    /\ sessionRefs[RefOf(s)] # NoTracking
    /\ SessionCommit(s, stopTimeTracking(SessionBundle(s)))

\* the await of a suspended stopTimeTracking of a session returns
SessionStopResumes ==
  \E s \in Sessions, r \in Resources :
    /\ sessionStops[s][r] > 0
    /\ SessionCommit(s, [stopResumed(SessionBundle(s))
                           EXCEPT !.stops[r] = @ - 1])

\* 30 s pass: the interval callback of every session with a live interval
SessionsTick ==
  /\ \E s \in Sessions : sessionRefs[RefOf(s)].startTime # Null
  /\ \A s \in Sessions : sessionNow[s] < MaxTime
  /\ sessionNow' = [s \in Sessions |->
        IF sessionRefs[RefOf(s)].startTime # Null
        THEN sessionNow[s] + TickHalfMinutes ELSE sessionNow[s]]
  /\ sessionSent' =
       {Req("time", sessionRefs[RefOf(s)].resourceId,
            TimeSpent(sessionRefs[RefOf(s)], sessionNow'[s])) :
          s \in {t \in Sessions :
                   /\ sessionRefs[RefOf(t)].intervalId
                   /\ sessionRefs[RefOf(t)].startTime # Null
                   /\ sessionRefs[RefOf(t)].resourceId # Null
                   /\ WorthSending(TimeSpent(sessionRefs[RefOf(t)],
                                             sessionNow'[t]))}}
  /\ sessionActing' = 0
  /\ UNCHANGED <<sessionRefs, sessionStops>>
  /\ UNCHANGED besidesSessions

SessionsNext ==
  \/ SessionStarts
  \/ SessionStops
  \/ SessionStopResumes
  \/ SessionsTick

SessionsSpec == SessionsInit /\ [][SessionsNext]_vars

\* C18: tracking contexts are per session.  A step in which the code of
\* one session runs (it starts, stops or switches tracking, or a stop of
\* its own resumes) leaves the interval handle, the start time and the
\* tracked resource id of every other session as they were.
C18_ContextsPerSession ==
  [][\A s \in Sessions, t \in Sessions :
       (sessionActing' = s /\ t # s)
       => sessionRefs'[RefOf(t)] = sessionRefs[RefOf(t)]]_vars

\* session 1 has tracked a resource for a minute, its interval live, and
\* session 2 has just stopped tracking another resource after a minute
C18_Witness ==
  /\ sessionActing = 2
  /\ sessionRefs[RefOf(1)].intervalId /\ sessionNow[1] >= MinuteHalfMinutes
  /\ \E r \in Resources :
       /\ sessionStops[2][r] > 0
       /\ sessionRefs[RefOf(1)].resourceId \notin {r, Null}

(***************************************************************************)
(* Part 6: the API client (services/api): the request interceptor that     *)
(* adds the access token and the response interceptor that refreshes the   *)
(* token on a 401 and replays the request.  A request is                   *)
(* [pc, retry, sends, refreshes, auth, result]: retry is                   *)
(* originalRequest._retry, sends counts the times it went to the server,   *)
(* refreshes the refresh calls made for it, auth is its Authorization      *)
(* header, result is what the caller got.                                  *)
(***************************************************************************)
NumApiRequests == 2
MaxTokens == 2

ApiRequestIds == 1..NumApiRequests
Tokens == 1..MaxTokens

NotCalled ==
  [pc |-> "idle", retry |-> FALSE, sends |-> 0, refreshes |-> 0,
   auth |-> Null, result |-> "none"]

\* an interceptor that refreshes on every 401
RetryAlways(q) == TRUE

\* !originalRequest._retry
NotRetried(q) == ~q.retry

\* return Promise.reject(error): the caller gets the error
Rejected(q, error) == [q EXCEPT !.pc = "done", !.result = error]

ApiInit ==
  /\ JourneyStart /\ server = [r \in Resources |-> 0]
  /\ userBudget = 0
  /\ RoadmapOff /\ PreviewOff /\ ChatOff /\ SessionsOff /\ HistoryOff
  /\ AuthOff /\ ListOff /\ AdminOff
  /\ accessToken \in Tokens \cup {Null}
  /\ refreshToken \in Tokens \cup {Null}
  /\ apiRequests = [i \in ApiRequestIds |-> NotCalled]
  /\ interceptEvent = <<>>

\* a call through `api`: the request interceptor adds the stored token
ApiCall(i) ==
  /\ apiRequests[i].pc = "idle"
  /\ apiRequests' = [apiRequests EXCEPT
       ![i].pc = "sent", ![i].sends = 1, ![i].auth = accessToken]
  /\ interceptEvent' = <<"call", i>>
  /\ UNCHANGED <<accessToken, refreshToken>>
  /\ UNCHANGED besidesApi

\* (response) => response
ApiSucceeds(i) ==
  /\ apiRequests[i].pc = "sent"
  /\ apiRequests' = [apiRequests EXCEPT ![i].pc = "done", ![i].result = "ok"]
  /\ interceptEvent' = <<"ok", i>>
  /\ UNCHANGED <<accessToken, refreshToken>>
  /\ UNCHANGED besidesApi

\* a network error, or a status other than 401: Promise.reject(error)
ApiFails(i) ==
  \E error \in {"network", "other"} :
    /\ apiRequests[i].pc = "sent"
    /\ apiRequests' = [apiRequests EXCEPT ![i] = Rejected(@, error)]
    /\ interceptEvent' = <<error, i>>
    /\ UNCHANGED <<accessToken, refreshToken>>
    /\ UNCHANGED besidesApi

\* the answer is 401: the first time with a stored refresh token the
\* refresh request goes out; otherwise Promise.reject(error)
ApiUnauthorized(i) ==
  /\ apiRequests[i].pc = "sent"
  /\ apiRequests' = [apiRequests EXCEPT ![i] =
       IF NotRetried(@)
       THEN IF refreshToken # Null
            THEN [@ EXCEPT !.retry = TRUE, !.pc = "refreshing",
                           !.refreshes = @ + 1]
            ELSE Rejected([@ EXCEPT !.retry = TRUE], "401")
       ELSE Rejected(@, "401")]
  /\ interceptEvent' = <<"401", i>>
  /\ UNCHANGED <<accessToken, refreshToken>>
  /\ UNCHANGED besidesApi

\* the refresh answers: the tokens are stored, the request is sent again
\* through `api` with the new access token
RefreshSucceeds(i) ==
  \E access \in Tokens, newRefreshToken \in Tokens \cup {Null} :
    /\ apiRequests[i].pc = "refreshing"
    /\ accessToken' = access
    /\ refreshToken' = IF newRefreshToken # Null THEN newRefreshToken
                       ELSE refreshToken
    /\ apiRequests' = [apiRequests EXCEPT
         ![i].pc = "sent", ![i].sends = @ + 1, ![i].auth = access]
    /\ interceptEvent' = <<"replay", i>>
    /\ UNCHANGED besidesApi

\* the refresh fails: catch (refreshError)
RefreshFails(i) ==
  /\ apiRequests[i].pc = "refreshing"
  /\ accessToken' = Null /\ refreshToken' = Null
  /\ apiRequests' = [apiRequests EXCEPT ![i] = Rejected(@, "refresh-error")]
  /\ interceptEvent' = <<"refresh-failed", i>>
  /\ UNCHANGED besidesApi

ApiAnswers(i) == ApiSucceeds(i) \/ ApiFails(i) \/ ApiUnauthorized(i)
RefreshAnswers(i) == RefreshSucceeds(i) \/ RefreshFails(i)

ApiNext ==
  \E i \in ApiRequestIds :
    \/ ApiCall(i)
    \/ ApiSucceeds(i)
    \/ ApiFails(i)
    \/ ApiUnauthorized(i)
    \/ RefreshSucceeds(i)
    \/ RefreshFails(i)

\* every request sent gets an answer or an error (axios settles the
\* promise of each request)
ApiSpec ==
  /\ ApiInit /\ [][ApiNext]_vars
  /\ \A i \in ApiRequestIds :
       WF_vars(ApiAnswers(i)) /\ WF_vars(RefreshAnswers(i))

\* the steps of request i stay within one refresh and one replay
ApiBounded(i) ==
  LET q == apiRequests[i]
      qn == apiRequests'[i]
  IN /\ qn.sends <= 2 /\ qn.refreshes <= 1
     /\ qn.sends > q.sends /\ q.sends >= 1 =>
          /\ q.pc = "refreshing" /\ interceptEvent' = <<"replay", i>>
          /\ accessToken' # Null /\ qn.auth = accessToken'
     /\ (interceptEvent' = <<"401", i>> /\ q.sends = 2) =>
          /\ qn = Rejected(q, "401")
          /\ UNCHANGED <<accessToken, refreshToken>>
     /\ (interceptEvent' = <<"refresh-failed", i>> /\ q.pc = "refreshing") =>
          /\ accessToken' = Null /\ refreshToken' = Null
          /\ qn = Rejected(q, "refresh-error")

\* C19: token refresh is bounded.  A request is replayed at most once, and
\* only after a refresh that stored the new access token, which the replay
\* carries; a 401 on the replay goes to the caller; a failed refresh
\* removes both stored tokens and goes to the caller; and every request
\* that was sent ends with an answer or an error for its caller.
C19_RefreshBounded ==
  /\ [][\A i \in ApiRequestIds : ApiBounded(i)]_vars
  /\ \A i \in ApiRequestIds :
       (apiRequests[i].pc = "sent") ~> (apiRequests[i].pc = "done")

\* a request was refreshed and replayed, and its replay got a 401 that
\* went to the caller, the refreshed tokens still stored
C19_Witness ==
  \E i \in ApiRequestIds :
    /\ apiRequests[i].pc = "done" /\ apiRequests[i].result = "401"
    /\ apiRequests[i].sends = 2 /\ apiRequests[i].refreshes = 1
    /\ accessToken # Null /\ interceptEvent = <<"401", i>>

(***************************************************************************)
(* Part 7: ConversationHistory (app/components/chat): fetchConversations   *)
(* and the list it shows.  A conversation is [id, updated_at], updated_at  *)
(* being the instant that new Date(updated_at).getTime() yields.           *)
(***************************************************************************)
MaxListed == 3
MaxStamp == 3
MaxFetches == 2

\* the arrays the server may answer with: conversation i of a list has id i
ConversationLists ==
  UNION {[1..k -> [id : 1..MaxListed, updated_at : 1..MaxStamp]] :
         k \in 0..MaxListed}

ServerLists == {l \in ConversationLists : \A i \in 1..Len(l) : l[i].id = i}

\* a comparator that puts the oldest first
CompareOldestFirst(a, b) == a.updated_at - b.updated_at

\* (a, b) => new Date(b.updated_at).getTime() - new Date(a.updated_at).getTime()
CompareUpdatedAt(a, b) == b.updated_at - a.updated_at

\* Array.prototype.sort: a stable sort by the comparator, here by insertion
\* of each element after those that do not come after it
RECURSIVE InsertBy(_, _)
InsertBy(sorted, x) ==
  IF sorted = <<>> THEN <<x>>
  ELSE IF CompareUpdatedAt(Head(sorted), x) <= 0
       THEN <<Head(sorted)>> \o InsertBy(Tail(sorted), x)
       ELSE <<x>> \o sorted

RECURSIVE SortConversations(_)
SortConversations(data) ==
  IF data = <<>> THEN <<>>
  ELSE InsertBy(SortConversations(SubSeq(data, 1, Len(data) - 1)),
                data[Len(data)])

HistoryInit ==
  /\ JourneyStart /\ server = [r \in Resources |-> 0]
  /\ userBudget = 0
  /\ RoadmapOff /\ PreviewOff /\ ChatOff /\ SessionsOff /\ ApiOff
  /\ AuthOff /\ ListOff /\ AdminOff
  /\ conversations = <<>> /\ historyLoading = TRUE
  /\ historyFetches = 1                 \* the mount effect has called it
  /\ historyData = <<>> /\ historyEvent = "none"

\* fetchConversations(), from the debounce timer of a conversation change
fetchConversations ==
  /\ historyFetches < MaxFetches
  /\ historyFetches' = historyFetches + 1
  /\ historyLoading' = TRUE
  /\ historyEvent' = "fetch"
  /\ UNCHANGED <<conversations, historyData>>
  /\ UNCHANGED besidesHistory

\* getUserConversations answers: an array, which is sorted and shown, or
\* something that is not an array, shown as no conversations
ConversationsFetched ==
  \E data \in ServerLists, isArray \in BOOLEAN :
    /\ historyFetches > 0
    /\ historyFetches' = historyFetches - 1
    /\ historyData' = IF isArray THEN data ELSE <<>>
    /\ conversations' = IF isArray THEN SortConversations(data) ELSE <<>>
    /\ historyLoading' = FALSE
    /\ historyEvent' = "fetched"
    /\ UNCHANGED besidesHistory

\* getUserConversations throws: catch, finally
ConversationsFetchFails ==
  /\ historyFetches > 0
  /\ historyFetches' = historyFetches - 1
  /\ conversations' = <<>>
  /\ historyLoading' = FALSE
  /\ historyEvent' = "failed"
  /\ UNCHANGED historyData
  /\ UNCHANGED besidesHistory

HistoryNext ==
  \/ fetchConversations
  \/ ConversationsFetched
  \/ ConversationsFetchFails

HistorySpec == HistoryInit /\ [][HistoryNext]_vars

\* s and t hold the same elements the same number of times
IsPermutation(s, t) ==
  /\ Len(s) = Len(t)
  /\ \A i \in 1..Len(t) : Occurrences(t[i], s) = Occurrences(t[i], t)

\* C20: the history is ordered by updated_at.  After an answered fetch the
\* list shown is a permutation of the conversations the server sent, the
\* most recently updated first; after a failed fetch the list is empty.
C20_HistoryOrdered ==
  /\ historyEvent = "fetched" =>
       /\ IsPermutation(conversations, historyData)
       /\ \A i, j \in 1..Len(conversations) :
            i < j => conversations[i].updated_at >= conversations[j].updated_at
  /\ historyEvent = "failed" => conversations = <<>>

\* the server sent three conversations, the oldest first, and the list
\* shows them the other way round
C20_Witness ==
  /\ historyEvent = "fetched" /\ Len(historyData) = MaxListed
  /\ \A i \in 1..(MaxListed - 1) :
       historyData[i].updated_at < historyData[i + 1].updated_at
  /\ conversations[1] = historyData[MaxListed]

(***************************************************************************)
(* Part 8: AuthProvider (contexts/AuthContext.tsx) over the API client:    *)
(* checkAuth, login, register, logout, and what the response interceptor   *)
(* leaves in localStorage when a call of theirs is answered.               *)
(***************************************************************************)
MaxAuthSteps == 3

Users == {[is_admin |-> a] : a \in BOOLEAN}

Storage(access, refresh, href) ==
  [access |-> access, refresh |-> refresh, href |-> href]

\* the refresh of the interceptor succeeded: the new tokens are stored
Refreshed ==
  IF refreshToken = Null THEN {}
  ELSE {Storage(a, r, FALSE) : a \in Tokens, r \in Tokens \cup {refreshToken}}

\* localStorage after a call through `api` was fulfilled: as it was, or
\* with the tokens of a refresh
FulfilledStorage == {Storage(accessToken, refreshToken, FALSE)} \cup Refreshed

\* localStorage after a call through `api` was rejected: as it was (no 401,
\* or no refresh token), with the tokens of a refresh (the replay failed),
\* or emptied by the catch of a failed refresh, which also assigns
\* window.location.href
RejectedStorage ==
  FulfilledStorage \cup
    (IF refreshToken = Null THEN {} ELSE {Storage(Null, Null, TRUE)})

\* localStorage and window.location after the interceptor
Stored(out) ==
  /\ accessToken' = out.access /\ refreshToken' = out.refresh
  /\ authRedirect' = (authRedirect \/ out.href)

AuthInit ==
  /\ JourneyStart /\ server = [r \in Resources |-> 0]
  /\ userBudget = 0
  /\ RoadmapOff /\ PreviewOff /\ ChatOff /\ SessionsOff /\ HistoryOff
  /\ accessToken \in Tokens \cup {Null}
  /\ refreshToken \in Tokens \cup {Null}
  /\ apiRequests = <<>> /\ interceptEvent = <<>>
  /\ authPhase = "constructed" /\ authUser = NoUser /\ authLoading = TRUE
  /\ isAuthenticated = FALSE /\ authCalls = {} /\ authRedirect = FALSE
  /\ authSteps = 0
  /\ ListOff /\ AdminOff

\* the effect of AdminPage with the context values l (loading),
\* a (isAuthenticated) and u (user): a redirect, or loadData()
AdminEffect(l, a, u) ==
  IF ~l /\ ~a
  THEN /\ adminPushes' = adminPushes \cup {"login"}
       /\ UNCHANGED adminLoads
  ELSE IF a /\ u # NoUser /\ ~u.is_admin
  THEN /\ adminPushes' = adminPushes \cup {"my-learning"}
       /\ UNCHANGED adminLoads
  ELSE IF a /\ u # NoUser /\ u.is_admin
  THEN /\ adminLoads' = adminLoads \cup {"effect"}
       /\ UNCHANGED adminPushes
  ELSE UNCHANGED <<adminLoads, adminPushes>>

\* the consumers of the context after a step of the provider: when it
\* changed a context value, a mounted AdminPage renders and runs its effect
AdminFollows(changed) ==
  IF adminMounted /\ changed
  THEN /\ AdminEffect(authLoading', isAuthenticated', authUser')
       /\ UNCHANGED <<adminMounted, adminLoading, adminData,
                      adminProcessing>>
  ELSE UNCHANGED mvars

\* a setter of the provider stored a value that differs from the old one
ContextChanged ==
  <<authLoading, isAuthenticated, authUser>>' #
    <<authLoading, isAuthenticated, authUser>>

besidesAuth ==
  <<jvars, rvars, pvars, cvars, svars, hvars, lvars, evars, apiRequests,
    interceptEvent>>

\* checkAuth(), up to its await: from the mount effect, and from the pages
\* that call it again
checkAuth ==
  /\ authSteps < MaxAuthSteps /\ authSteps' = authSteps + 1
  /\ authPhase' = "running"
  /\ IF accessToken # Null
     THEN /\ authCalls' = authCalls \cup {"check"}
          /\ UNCHANGED <<authUser, authLoading, isAuthenticated>>
     ELSE /\ authUser' = NoUser /\ isAuthenticated' = FALSE
          /\ authLoading' = FALSE
          /\ UNCHANGED authCalls
  /\ UNCHANGED <<accessToken, refreshToken, authRedirect>>
  /\ AdminFollows(ContextChanged)
  /\ UNCHANGED besidesAuth

\* getCurrentUser() returns: setUser, setIsAuthenticated(true), finally
CheckAnswered ==
  \E out \in FulfilledStorage, userData \in Users :
    /\ "check" \in authCalls /\ authCalls' = authCalls \ {"check"}
    /\ Stored(out)
    /\ authUser' = userData /\ isAuthenticated' = TRUE
    /\ authLoading' = FALSE
    /\ UNCHANGED <<authPhase, authSteps>>
    /\ AdminFollows(TRUE)
    /\ UNCHANGED besidesAuth

\* getCurrentUser() throws: catch, finally
CheckFails ==
  \E out \in RejectedStorage :
    /\ "check" \in authCalls /\ authCalls' = authCalls \ {"check"}
    /\ Stored(out)
    /\ authUser' = NoUser /\ isAuthenticated' = FALSE
    /\ authLoading' = FALSE
    /\ UNCHANGED <<authPhase, authSteps>>
    /\ AdminFollows(ContextChanged)
    /\ UNCHANGED besidesAuth

\* login(email, password), up to its await
login ==
  /\ authPhase = "running"
  /\ authSteps < MaxAuthSteps /\ authSteps' = authSteps + 1
  /\ authCalls' = authCalls \cup {"login"}
  /\ UNCHANGED <<authPhase, authUser, authLoading, isAuthenticated,
                 authRedirect, accessToken, refreshToken>>
  /\ AdminFollows(FALSE)
  /\ UNCHANGED besidesAuth

\* apiClient.login stores the tokens the response holds (a fulfilled login
\* holds an access_token); setUser(data.user), setIsAuthenticated(true)
LoginAnswered ==
  \E out \in FulfilledStorage, access \in Tokens,
     refresh \in Tokens \cup {Null}, userData \in Users :
    /\ "login" \in authCalls /\ authCalls' = authCalls \ {"login"}
    /\ Stored(Storage(access,
                      IF refresh # Null THEN refresh ELSE out.refresh,
                      FALSE))
    /\ authUser' = userData /\ isAuthenticated' = TRUE
    /\ UNCHANGED <<authPhase, authLoading, authSteps>>
    /\ AdminFollows(TRUE)
    /\ UNCHANGED besidesAuth

\* apiClient.login throws: the caller of login gets the error
LoginFails ==
  \E out \in RejectedStorage :
    /\ "login" \in authCalls /\ authCalls' = authCalls \ {"login"}
    /\ Stored(out)
    /\ UNCHANGED <<authPhase, authUser, authLoading, isAuthenticated,
                   authSteps>>
    /\ AdminFollows(FALSE)
    /\ UNCHANGED besidesAuth

\* register(email, password), up to its await
register ==
  /\ authPhase = "running"
  /\ authSteps < MaxAuthSteps /\ authSteps' = authSteps + 1
  /\ authCalls' = authCalls \cup {"register"}
  /\ UNCHANGED <<authPhase, authUser, authLoading, isAuthenticated,
                 authRedirect, accessToken, refreshToken>>
  /\ AdminFollows(FALSE)
  /\ UNCHANGED besidesAuth

\* apiClient.register returns response.data and stores nothing;
\* if (data.access_token) { setUser(data.user); setIsAuthenticated(true) }
RegisterAnswered ==
  \E out \in FulfilledStorage, access \in Tokens \cup {Null},
     userData \in Users :
    /\ "register" \in authCalls /\ authCalls' = authCalls \ {"register"}
    /\ Stored(out)
    /\ IF access # Null
       THEN authUser' = userData /\ isAuthenticated' = TRUE
       ELSE UNCHANGED <<authUser, isAuthenticated>>
    /\ UNCHANGED <<authPhase, authLoading, authSteps>>
    /\ AdminFollows(ContextChanged)
    /\ UNCHANGED besidesAuth

\* apiClient.register throws: the caller of register gets the error
RegisterFails ==
  \E out \in RejectedStorage :
    /\ "register" \in authCalls /\ authCalls' = authCalls \ {"register"}
    /\ Stored(out)
    /\ UNCHANGED <<authPhase, authUser, authLoading, isAuthenticated,
                   authSteps>>
    /\ AdminFollows(FALSE)
    /\ UNCHANGED besidesAuth

\* logout(), from the button the header shows to an authenticated user:
\* apiClient.logout() removes both tokens; setUser(null),
\* setIsAuthenticated(false)
logout ==
  /\ authPhase = "running" /\ ~authLoading /\ isAuthenticated
  /\ authSteps < MaxAuthSteps /\ authSteps' = authSteps + 1
  /\ accessToken' = Null /\ refreshToken' = Null
  /\ authUser' = NoUser /\ isAuthenticated' = FALSE
  /\ UNCHANGED <<authPhase, authLoading, authCalls, authRedirect>>
  /\ AdminFollows(ContextChanged)
  /\ UNCHANGED besidesAuth

\* the document that assigned window.location.href is replaced: the
\* AuthProvider of /login is constructed, the calls of the old one are gone
PageReloads ==
  /\ authRedirect
  /\ authPhase' = "constructed" /\ authUser' = NoUser /\ authLoading' = TRUE
  /\ isAuthenticated' = FALSE /\ authCalls' = {} /\ authRedirect' = FALSE
  /\ adminMounted' = FALSE /\ adminLoading' = TRUE /\ adminLoads' = {}
  /\ adminData' = FALSE /\ adminProcessing' = "none" /\ adminPushes' = {}
  /\ UNCHANGED <<authSteps, accessToken, refreshToken>>
  /\ UNCHANGED besidesAuth

AuthNext ==
  \/ checkAuth
  \/ CheckAnswered
  \/ CheckFails
  \/ login
  \/ LoginAnswered
  \/ LoginFails
  \/ register
  \/ RegisterAnswered
  \/ RegisterFails
  \/ logout
  \/ PageReloads

AuthSpec == AuthInit /\ [][AuthNext]_vars

\* C28: authenticated only with a stored access token.  Once the initial
\* auth check is over, and unless the page is being replaced after a failed
\* refresh, isAuthenticated = true implies that localStorage holds an
\* access_token.
C28_AuthenticatedHasToken ==
  (authPhase = "running" /\ ~authLoading /\ ~authRedirect /\ isAuthenticated)
    => accessToken # Null

(***************************************************************************)
(* Part 9: MyLearningPage.loadJourneys (my-learning/page.tsx): the list    *)
(* call, then one getJourney per ready journey, all settled before the     *)
(* list is shown.                                                          *)
(***************************************************************************)
MaxJourneys == 3

ListedIds == 1..MaxJourneys
ListedStatuses == {"ready", "pending"}

\* an entry of the list call: no resources
BasicJourney(id, status) == [id |-> id, status |-> status, full |-> FALSE]

\* what getJourney(id) returns: the journey with its resources
FullJourney(id) == [id |-> id, status |-> "ready", full |-> TRUE]

\* the answers of getUserJourneys: up to MaxJourneys journeys, each once
ListResponses ==
  {d \in UNION {[1..n -> {BasicJourney(id, st) : id \in ListedIds,
                                                st \in ListedStatuses}] :
                  n \in 0..MaxJourneys} :
     \A i, j \in 1..Len(d) : i # j => d[i].id # d[j].id}

\* the promise of a callback that has not returned
Awaited == [id |-> 0, status |-> "awaited", full |-> FALSE]

\* null in the place of a journey
NullJourney == [id |-> 0, status |-> "null", full |-> FALSE]

\* a callback that gives up its journey when getJourney throws
DetailDropped(basic) == NullJourney

\* catch (error) { return journey }
DetailFallback(basic) == basic

\* if (journey.status === 'ready' && journey.id)
NeedsDetails(basic) == basic.status = "ready" /\ basic.id # 0

\* journeysWithResources.map(...).filter(journey => journey !== null)
ResolvedJourneys(results) ==
  SelectSeq(results, LAMBDA j : j # NullJourney)

ListInit ==
  /\ JourneyStart /\ server = [r \in Resources |-> 0]
  /\ userBudget = 0
  /\ RoadmapOff /\ PreviewOff /\ ChatOff /\ SessionsOff /\ ApiOff
  /\ HistoryOff /\ AuthOff /\ AdminOff
  /\ journeys = <<>> /\ listLoading = TRUE /\ listPhase = "idle"
  /\ listData = <<>> /\ listResults = <<>>

\* every callback of data.map has returned: setJourneys, finally
Settle(results) ==
  IF \A i \in 1..Len(results) : results[i] # Awaited
  THEN /\ journeys' = ResolvedJourneys(results)
       /\ listLoading' = FALSE /\ listPhase' = "done"
  ELSE /\ listPhase' = "details"
       /\ UNCHANGED <<journeys, listLoading>>

\* loadJourneys(), up to its first await
loadJourneys ==
  /\ listPhase = "idle"
  /\ listPhase' = "listing"
  /\ UNCHANGED <<journeys, listLoading, listData, listResults>>
  /\ UNCHANGED besidesList

\* getUserJourneys returns data: the callbacks of data.map run up to their
\* await, those of journeys that need no details return at once
ListAnswered ==
  \E data \in ListResponses :
    /\ listPhase = "listing"
    /\ listData' = data
    /\ listResults' = [i \in 1..Len(data) |->
                         IF NeedsDetails(data[i]) THEN Awaited ELSE data[i]]
    /\ Settle(listResults')
    /\ UNCHANGED besidesList

\* getUserJourneys throws: catch { setJourneys([]) }, finally
ListFails ==
  /\ listPhase = "listing"
  /\ journeys' = <<>> /\ listLoading' = FALSE /\ listPhase' = "failed"
  /\ UNCHANGED <<listData, listResults>>
  /\ UNCHANGED besidesList

\* getJourney(data[i].id) returns
DetailAnswered ==
  \E i \in 1..Len(listResults) :
    /\ listPhase = "details" /\ listResults[i] = Awaited
    /\ listResults' = [listResults EXCEPT ![i] = FullJourney(listData[i].id)]
    /\ Settle(listResults')
    /\ UNCHANGED listData
    /\ UNCHANGED besidesList

\* getJourney(data[i].id) throws: the catch of the callback
DetailFails ==
  \E i \in 1..Len(listResults) :
    /\ listPhase = "details" /\ listResults[i] = Awaited
    /\ listResults' = [listResults EXCEPT ![i] = DetailFallback(listData[i])]
    /\ Settle(listResults')
    /\ UNCHANGED listData
    /\ UNCHANGED besidesList

ListNext ==
  \/ loadJourneys
  \/ ListAnswered
  \/ ListFails
  \/ DetailAnswered
  \/ DetailFails

ListSpec == ListInit /\ [][ListNext]_vars

\* C29: per-journey failures are isolated.  When the load is over after a
\* list call that returned data, the list shown has one entry per journey
\* of data, in the same order: the journey with its resources where
\* getJourney returned, the entry of data itself where getJourney failed or
\* was not called.  Only a failed list call leaves the list empty although
\* journeys exist.
C29_FailuresIsolated ==
  /\ listPhase = "done" =>
       /\ Len(journeys) = Len(listData)
       /\ \A i \in 1..Len(listData) :
            /\ journeys[i].id = listData[i].id
            /\ journeys[i] \in {listData[i], FullJourney(listData[i].id)}
            /\ ~NeedsDetails(listData[i]) => journeys[i] = listData[i]
  /\ listPhase = "failed" => journeys = <<>>

\* the details of the first of two ready journeys failed and those of the
\* second were loaded: the first is listed with its basic data
C29_Witness ==
  /\ listPhase = "done" /\ Len(listData) = 2
  /\ NeedsDetails(listData[1]) /\ NeedsDetails(listData[2])
  /\ journeys[1] = listData[1] /\ journeys[2].full

(***************************************************************************)
(* Part 10: AdminPage (the /admin page) under the AuthProvider: its        *)
(* effect, loadData, handleSetPremium and what it renders.                 *)
(***************************************************************************)
AdminInit ==
  /\ JourneyStart /\ server = [r \in Resources |-> 0]
  /\ userBudget = 0
  /\ RoadmapOff /\ PreviewOff /\ ChatOff /\ SessionsOff /\ HistoryOff
  /\ accessToken \in Tokens \cup {Null}
  /\ refreshToken \in Tokens \cup {Null}
  /\ apiRequests = <<>> /\ interceptEvent = <<>>
  /\ AuthOff /\ ListOff /\ AdminOff

\* what AdminPage leaves alone, apart from localStorage and
\* window.location, which its calls reach through the interceptor
besidesAdmin ==
  <<jvars, rvars, pvars, cvars, svars, hvars, lvars, evars, apiRequests,
    interceptEvent, authPhase, authUser, authLoading, isAuthenticated,
    authCalls, authSteps>>

\* user?.is_admin
IsAdmin(u) == u # NoUser /\ u.is_admin

\* what AdminPage returns
AdminView ==
  IF authLoading \/ adminLoading THEN "loading"
  ELSE IF ~isAuthenticated \/ ~IsAdmin(authUser) THEN "null"
  ELSE "panel"

\* the page is opened: useState initial values, first render, the effect
AdminMounts ==
  /\ ~adminMounted /\ ~authRedirect
  /\ adminMounted' = TRUE /\ adminLoading' = TRUE /\ adminData' = FALSE
  /\ adminProcessing' = "none"
  /\ IF ~authLoading /\ ~isAuthenticated
     THEN adminPushes' = {"login"} /\ UNCHANGED adminLoads
     ELSE IF isAuthenticated /\ authUser # NoUser /\ ~authUser.is_admin
     THEN adminPushes' = {"my-learning"} /\ UNCHANGED adminLoads
     ELSE IF isAuthenticated /\ IsAdmin(authUser)
     THEN adminLoads' = adminLoads \cup {"effect"} /\ adminPushes' = {}
     ELSE adminPushes' = {} /\ UNCHANGED adminLoads
  /\ UNCHANGED <<accessToken, refreshToken, authRedirect>>
  /\ UNCHANGED besidesAdmin

\* router.push has replaced the page: AdminPage is unmounted, the calls it
\* made are still awaited
AdminNavigates ==
  /\ adminMounted /\ adminPushes # {}
  /\ adminMounted' = FALSE
  /\ UNCHANGED <<adminLoading, adminLoads, adminData, adminProcessing,
                 adminPushes>>
  /\ UNCHANGED <<accessToken, refreshToken, authRedirect>>
  /\ UNCHANGED besidesAdmin

\* the caller of a loadData that returned: handleSetPremium goes on to its
\* finally, setProcessing(null)
AfterLoad(caller) ==
  IF caller = "premium" THEN adminProcessing' = "none"
  ELSE UNCHANGED adminProcessing

\* getPremiumRequests and getAllUsers return: setPremiumRequests,
\* setAllUsers, finally setLoading(false)
LoadDataAnswered ==
  \E caller \in adminLoads, out \in FulfilledStorage :
    /\ adminLoads' = adminLoads \ {caller}
    /\ Stored(out)
    /\ IF adminMounted
       THEN adminData' = TRUE /\ adminLoading' = FALSE
       ELSE UNCHANGED <<adminData, adminLoading>>
    /\ AfterLoad(caller)
    /\ UNCHANGED <<adminMounted, adminPushes>>
    /\ UNCHANGED besidesAdmin

\* one of the two calls throws: catch, finally setLoading(false)
LoadDataFails ==
  \E caller \in adminLoads, out \in RejectedStorage :
    /\ adminLoads' = adminLoads \ {caller}
    /\ Stored(out)
    /\ IF adminMounted
       THEN adminLoading' = FALSE
       ELSE UNCHANGED adminLoading
    /\ AfterLoad(caller)
    /\ UNCHANGED <<adminMounted, adminData, adminPushes>>
    /\ UNCHANGED besidesAdmin

\* handleSetPremium(userId, isPremium), up to its await, from a button of
\* the panel
handleSetPremium ==
  /\ adminMounted /\ AdminView = "panel" /\ adminProcessing = "none"
  /\ adminProcessing' = "posting"
  /\ UNCHANGED <<adminMounted, adminLoading, adminLoads, adminData,
                 adminPushes>>
  /\ UNCHANGED <<accessToken, refreshToken, authRedirect>>
  /\ UNCHANGED besidesAdmin

\* setPremiumStatus returns: await loadData()
SetPremiumAnswered ==
  \E out \in FulfilledStorage :
    /\ adminProcessing = "posting"
    /\ Stored(out)
    /\ adminProcessing' = "reloading"
    /\ adminLoads' = adminLoads \cup {"premium"}
    /\ UNCHANGED <<adminMounted, adminLoading, adminData, adminPushes>>
    /\ UNCHANGED besidesAdmin

\* setPremiumStatus throws: catch (alert), finally setProcessing(null)
SetPremiumFails ==
  \E out \in RejectedStorage :
    /\ adminProcessing = "posting"
    /\ Stored(out)
    /\ adminProcessing' = "none"
    /\ UNCHANGED <<adminMounted, adminLoading, adminLoads, adminData,
                   adminPushes>>
    /\ UNCHANGED besidesAdmin

\* useEffect(() => { checkAuth() }, [checkAuth]): the provider is mounted
ProviderMounts == authPhase = "constructed" /\ checkAuth

\* the steps of the provider that can be taken while /admin is open (its
\* mount effect, the logout button of the header), and those of the page
AdminNext ==
  \/ ProviderMounts
  \/ CheckAnswered
  \/ CheckFails
  \/ logout
  \/ PageReloads
  \/ AdminMounts
  \/ AdminNavigates
  \/ LoadDataAnswered
  \/ LoadDataFails
  \/ handleSetPremium
  \/ SetPremiumAnswered
  \/ SetPremiumFails

AdminSpec == AdminInit /\ [][AdminNext]_vars

\* C30: no admin data for a non-admin.  A step that calls loadData
\* (getPremiumRequests / getAllUsers) is taken only while the authenticated
\* user has is_admin = true; the panel is rendered only for such a user;
\* and on a mounted page an unauthenticated user (auth check over) has been
\* redirected to /login, an authenticated non-admin to /my-learning.
C30_AdminOnly ==
  /\ [][adminLoads' \ adminLoads # {} =>
          isAuthenticated' /\ IsAdmin(authUser')]_vars
  /\ [](adminMounted /\ AdminView = "panel" =>
          isAuthenticated /\ IsAdmin(authUser))
  /\ [](adminMounted /\ ~authLoading /\ ~isAuthenticated =>
          "login" \in adminPushes)
  /\ [](adminMounted /\ isAuthenticated /\ authUser # NoUser
          /\ ~IsAdmin(authUser) => "my-learning" \in adminPushes)

====
